---- MODULE Spec2Model ----
(***************************************************************************)
(* A model of the media style-transfer web app: the functional core        *)
(* (functional-core.js: frame codec, frame-time computation, codec         *)
(* ranking), the effects layer (effects.js: styleFramesBatch,              *)
(* createVideoFromFrames) and the application shell (effects.js, second    *)
(* half: upload, extraction, generation, two-pass video flow).             *)
(*                                                                         *)
(* Every part has its own initial predicate and next-state relation; a     *)
(* part that is not exercised keeps its variable at the "off" value.       *)
(***************************************************************************)
EXTENDS Integers, Sequences, FiniteSets, TLC

VARIABLES
    fc,     \* frame codec: inputs and results of createFrame / parseDataUrl
    cd,     \* codec ranking: input and result of selectBestCodec
    sm,     \* sampler: inputs and results of the two frame-time computations
    asm,    \* one call of createVideoFromFrames (either implementation)
    bt,     \* one call of styleFramesBatch (effects layer)
    state,      \* the application state object (effects.js 438-452)
    elements,   \* the DOM elements the shell reads and writes
    storage,    \* localStorage['gemini_api_key']
    run,        \* the pending handleGenerate calls
    reading,    \* the pending file reads of processImageFile, counted by image
    ex,         \* the pending handleExtractFrames call
    clicks,     \* the number of user events so far
    build,      \* process.env.API_KEY of the build the page comes from
    ia,     \* the image-only application (src/src/index.js)
    lx,     \* the legacy page (part_002)
    cam,    \* the camera of one of the three web pages
    vm      \* the Android MainViewModel (NEXT-STEPS.md 215-306)

shellVars == <<state, elements, storage, run, reading, ex, clicks, build>>
restVars == <<cam, vm>>
otherVars == <<ia, lx, restVars>>
vars == <<fc, cd, sm, asm, bt, state, elements, storage, run, reading, ex, clicks, build,
          ia, lx,
          cam, vm>>

(***************************************************************************)
(* Generic helpers.                                                        *)
(***************************************************************************)
Range(s) == {s[i] : i \in DOMAIN s}

Min(S) == CHOOSE x \in S : \A y \in S : x <= y

\* All sequences over S of length at most n.
SeqsUpTo(S, n) == UNION {[1..k -> S] : k \in 0..n}

\* JavaScript's undefined / null, distinct from every modelled value.
Undefined == <<"undefined">>
Null == [null |-> TRUE]

Off == [pc |-> "off"]

ShellOff ==
    /\ state = Off /\ elements = Off /\ storage = Off
    /\ run = Off /\ reading = Off /\ ex = Off /\ clicks = Off /\ build = Off

RestOff == cam = Off /\ vm = Off

OthersOff == ia = Off /\ lx = Off /\ RestOff

(***************************************************************************)
(* FRAME CODEC (functional-core.js).  A JavaScript string is a sequence of *)
(* one-character strings, so that split and the regular expression of     *)
(* parseDataUrl are computed character by character.                       *)
(***************************************************************************)
MaxMimeLen == 5
MaxPayloadLen == 1

\* Characters a MIME string is drawn from: a letter, the type/subtype
\* separator, the parameter separator, and the three other characters the
\* parser gives a meaning to (',' for split, ':' and the line terminator for
\* the regular expression, whose '.' matches no line terminator).
MimeChars == {"a", "/", ";", ",", ":", "\n"}
\* Characters of the base64 alphabet (a letter and the padding character).
PayloadChars == {"A", "="}

DataScheme == <<"d", "a", "t", "a", ":">>
Base64Marker == <<";", "b", "a", "s", "e", "6", "4", ",">>
DefaultMime == <<"i", "m", "a", "g", "e", "/", "j", "p", "e", "g">>

\* Least index i >= from with s[i] = c, or 0.
IndexOf(s, c, from) ==
    LET hits == {i \in DOMAIN s : i >= from /\ s[i] = c}
    IN  IF hits = {} THEN 0 ELSE Min(hits)

\* s.split(',')[0]
SplitHead(s) ==
    LET c == IndexOf(s, ",", 1)
    IN  IF c = 0 THEN s ELSE SubSeq(s, 1, c - 1)

\* s.split(',')[1]
SplitSecond(s) ==
    LET c == IndexOf(s, ",", 1)
        d == IF c = 0 THEN 0 ELSE IndexOf(s, ",", c + 1)
    IN  IF c = 0 THEN Undefined
        ELSE IF d = 0 THEN SubSeq(s, c + 1, Len(s))
        ELSE SubSeq(s, c + 1, d - 1)

\* Whether /:(.*?);/ matches starting at the ':' at index a: the first ';'
\* after a comes before any line terminator.
MatchesAt(header, a) ==
    LET b == IndexOf(header, ";", a + 1)
        n == IndexOf(header, "\n", a + 1)
    IN  header[a] = ":" /\ b # 0 /\ (n = 0 \/ b < n)

\* header.match(/:(.*?);/)?.[1] : the text between the leftmost ':' at which
\* the expression matches and the first ';' after it; Undefined when there
\* is no match.
MatchMime(header) ==
    LET starts == {a \in DOMAIN header : MatchesAt(header, a)}
        a == Min(starts)
    IN  IF starts = {} THEN Undefined
        ELSE SubSeq(header, a + 1, IndexOf(header, ";", a + 1) - 1)

\* Mutant: the expression is anchored at '/' instead of ':' (/\/(.*?);/), so
\* only the subtype is captured.
parseDataUrlSubtype(dataUrl) ==
    LET header == SplitHead(dataUrl)
        a == IndexOf(header, "/", 1)
        b == IF a = 0 THEN 0 ELSE IndexOf(header, ";", a + 1)
    IN  [mimeType |-> IF b = 0 \/ b = a + 1 THEN DefaultMime ELSE SubSeq(header, a + 1, b - 1),
         data |-> SplitSecond(dataUrl)]

parseDataUrl(dataUrl) ==
    LET header == SplitHead(dataUrl)
        m == MatchMime(header)
    IN  [mimeType |-> IF m = Undefined \/ m = <<>> THEN DefaultMime ELSE m,
         data |-> SplitSecond(dataUrl)]

createDataUrl(mimeType, data) == DataScheme \o mimeType \o Base64Marker \o data

createFrame(data, mimeType) ==
    [data |-> data, mimeType |-> mimeType, src |-> createDataUrl(mimeType, data)]

InitFC ==
    /\ fc \in [pc : {"input"},
               mime : SeqsUpTo(MimeChars, MaxMimeLen),
               payload : SeqsUpTo(PayloadChars, MaxPayloadLen)]
    /\ cd = Off
    /\ sm = Off
    /\ asm = Off
    /\ bt = Off
    /\ ShellOff
    /\ OthersOff

FcEncode ==
    /\ fc.pc = "input"
    /\ fc' = [pc |-> "encoded", mime |-> fc.mime, payload |-> fc.payload,
              frame |-> createFrame(fc.payload, fc.mime)]
    /\ UNCHANGED <<cd, sm, asm, bt, shellVars, otherVars>>

FcDecode ==
    /\ fc.pc = "encoded"
    /\ fc' = [pc |-> "decoded", mime |-> fc.mime, payload |-> fc.payload,
              frame |-> fc.frame, parsed |-> parseDataUrl(fc.frame.src)]
    /\ UNCHANGED <<cd, sm, asm, bt, shellVars, otherVars>>

NextFC == FcEncode \/ FcDecode

SpecFrameCodec == InitFC /\ [][NextFC]_vars

\* A MIME string the parser reads back unchanged: not empty, and free of the
\* parameter separator, of the comma and of line terminators.
PlainMime(m) == m # <<>> /\ Range(m) \cap {";", ",", "\n"} = {}

\* letter+ "/" letter+ ( ";" letter+ )* : a media type, with parameters or not.
RECURSIVE Segments(_, _)
Segments(m, sep) ==
    LET c == IndexOf(m, sep, 1)
    IN  IF c = 0 THEN <<m>> ELSE <<SubSeq(m, 1, c - 1)>> \o Segments(SubSeq(m, c + 1, Len(m)), sep)

Letters(s) == s # <<>> /\ Range(s) = {"a"}

WellFormedMime(m) ==
    LET parts == Segments(m, ";")
        essence == Segments(parts[1], "/")
    IN  /\ Len(essence) = 2 /\ Letters(essence[1]) /\ Letters(essence[2])
        /\ \A i \in 2..Len(parts) : Letters(parts[i])

\* C9 (as stated): for any MIME string m and base64 payload p,
\* parseDataUrl(createFrame(p, m).src) = {mimeType: m, data: p}.
C9_RoundTripAnyMime ==
    fc.pc = "decoded" /\ WellFormedMime(fc.mime) =>
        fc.parsed = [mimeType |-> fc.mime, data |-> fc.payload]

\* C9 (amended): the round trip holds for every base64 payload and every
\* non-empty MIME string without ';', ',' and line terminators; the payload
\* is read back unchanged whenever the MIME string has no ','.
C9_RoundTripPlainMime ==
    fc.pc = "decoded" =>
        /\ PlainMime(fc.mime) => fc.parsed = [mimeType |-> fc.mime, data |-> fc.payload]
        /\ "," \notin Range(fc.mime) => fc.parsed.data = fc.payload

C9_Witness ==
    /\ fc.pc = "decoded"
    /\ fc.mime = <<"a", "/", "a">>
    /\ fc.payload = <<"A">>
    /\ fc.parsed = [mimeType |-> <<"a", "/", "a">>, data |-> <<"A">>]

(***************************************************************************)
(* CODEC RANKING (functional-core.js, selectBestCodec).                    *)
(***************************************************************************)
MaxSupported == 4

CodecOptions ==
    << [mimeType |-> "video/webm; codecs=vp9", extension |-> "webm"],
       [mimeType |-> "video/webm; codecs=vp8", extension |-> "webm"],
       [mimeType |-> "video/mp4", extension |-> "mp4"],
       [mimeType |-> "video/webm", extension |-> "webm"] >>

RankedTypes == {CodecOptions[k].mimeType : k \in DOMAIN CodecOptions}

\* What a caller may list as supported: the ranked types and one the ranking
\* does not know.
HostTypes == RankedTypes \cup {"video/x-matroska"}

\* Mutant: the first LISTED type that the ranking knows wins (the result then
\* depends on the order of supportedTypes).
selectBestCodecFirstListed(supportedTypes) ==
    LET known == {i \in DOMAIN supportedTypes : supportedTypes[i] \in RankedTypes}
    IN  IF known = {} THEN Null
        ELSE CHOOSE o \in Range(CodecOptions) : o.mimeType = supportedTypes[Min(known)]

\* codecOptions.find(option => supportedTypes.includes(option.mimeType)) || null
selectBestCodec(supportedTypes) ==
    LET hits == {k \in DOMAIN CodecOptions :
                    \E i \in DOMAIN supportedTypes : supportedTypes[i] = CodecOptions[k].mimeType}
    IN  IF hits = {} THEN Null ELSE CodecOptions[Min(hits)]

InitCD ==
    /\ cd \in [pc : {"input"}, supportedTypes : SeqsUpTo(HostTypes, MaxSupported)]
    /\ fc = Off
    /\ sm = Off
    /\ asm = Off
    /\ bt = Off
    /\ ShellOff
    /\ OthersOff

CdSelect ==
    /\ cd.pc = "input"
    /\ cd' = [pc |-> "selected", supportedTypes |-> cd.supportedTypes,
              codec |-> selectBestCodec(cd.supportedTypes)]
    /\ UNCHANGED <<fc, sm, asm, bt, shellVars, otherVars>>

NextCD == CdSelect


(***************************************************************************)
(* SAMPLER ARITHMETIC.  JavaScript numbers are IEEE 754 doubles: a         *)
(* positive double is an exponent e and a 53-bit significand m (most       *)
(* significant bit first, m[1] = 1), with value 1.m[2..53] * 2^e.  Every   *)
(* operation rounds to nearest, ties to even.                              *)
(***************************************************************************)
MantissaBits == 53

\* A duration is the double nearest to num / den seconds.
MaxDurationNum == 6
MaxDurationDen == 5
\* ... or one of the next MaxDurationNudge doubles above it.
MaxDurationNudge == 13
MaxSampleCount == 5

Zero == [e |-> 0, m |-> <<>>]

RECURSIVE Pow2(_)
Pow2(n) == IF n = 0 THEN 1 ELSE 2 * Pow2(n - 1)

\* Largest k with b * 2^k <= a (for a >= b >= 1).
RECURSIVE HalvingsOf(_, _)
HalvingsOf(a, b) == IF 2 * b > a THEN 0 ELSE 1 + HalvingsOf(a, 2 * b)

\* Smallest j with a * 2^j >= b (for a >= 1).
RECURSIVE DoublingsTo(_, _)
DoublingsTo(a, b) == IF a >= b THEN 0 ELSE 1 + DoublingsTo(2 * a, b)

\* The next n bits of r / den (r < den), by long division.
RECURSIVE LongDiv(_, _, _)
LongDiv(r, den, n) ==
    IF n = 0 THEN <<>>
    ELSE LET b == IF 2 * r >= den THEN 1 ELSE 0
         IN  <<b>> \o LongDiv(2 * r - b * den, den, n - 1)

\* The remainder left after those n bits.
RECURSIVE LongRem(_, _, _)
LongRem(r, den, n) ==
    IF n = 0 THEN r
    ELSE LET b == IF 2 * r >= den THEN 1 ELSE 0
         IN  LongRem(2 * r - b * den, den, n - 1)

AllOnes(bits) == \A j \in DOMAIN bits : bits[j] = 1

\* bits + 1, for bits not all ones.
RECURSIVE IncBits(_)
IncBits(bits) ==
    LET n == Len(bits)
    IN  IF n = 0 THEN <<>>
        ELSE IF bits[n] = 0 THEN SubSeq(bits, 1, n - 1) \o <<1>>
        ELSE IncBits(SubSeq(bits, 1, n - 1)) \o <<0>>

\* The double above x (x > 0).
NextUp(x) ==
    IF AllOnes(x.m) THEN [e |-> x.e + 1, m |-> <<1>> \o [j \in 1..(MantissaBits - 1) |-> 0]]
    ELSE [e |-> x.e, m |-> IncBits(x.m)]

\* Round to nearest, ties to even: top holds the MantissaBits leading bits,
\* guard the next bit, sticky whether any later bit is set.
RoundNearestEven(top, guard, sticky, e) ==
    IF guard = 1 /\ (sticky \/ top[MantissaBits] = 1)
    THEN NextUp([e |-> e, m |-> top])
    ELSE [e |-> e, m |-> top]

\* The double nearest to a / b, for integers a >= 0 and b >= 1.
DivInts(a, b) ==
    IF a = 0 THEN Zero
    ELSE LET up == a >= b
             k == IF up THEN HalvingsOf(a, b) ELSE 0 - DoublingsTo(a, b)
             num == IF up THEN a ELSE a * Pow2(0 - k)
             den == IF up THEN b * Pow2(k) ELSE b
             frac == LongDiv(num - den, den, MantissaBits)
             rem == LongRem(num - den, den, MantissaBits)
         IN  RoundNearestEven(<<1>> \o SubSeq(frac, 1, MantissaBits - 1),
                              frac[MantissaBits], rem # 0, k)

Reverse(s) == [j \in 1..Len(s) |-> s[Len(s) + 1 - j]]

\* The bits of c, least significant first.
RECURSIVE BinaryOf(_)
BinaryOf(c) == IF c = 0 THEN <<>> ELSE <<c % 2>> \o BinaryOf(c \div 2)

\* The bits of i * m, least significant first, multiplying from the least
\* significant bit of m (its last) up.
RECURSIVE MulBits(_, _, _, _)
MulBits(m, idx, i, carry) ==
    IF idx = 0 THEN BinaryOf(carry)
    ELSE LET t == m[idx] * i + carry
         IN  IF t % 2 = 1 THEN <<1>> \o MulBits(m, idx - 1, i, (t - 1) \div 2)
             ELSE <<0>> \o MulBits(m, idx - 1, i, t \div 2)

\* The double nearest to i * x, for an integer i >= 0 and a double x >= 0.
MulSmall(i, x) ==
    IF i = 0 \/ x = Zero THEN Zero
    ELSE LET prod == Reverse(MulBits(x.m, MantissaBits, i, 0))
             extra == Len(prod) - MantissaBits
         IN  RoundNearestEven(SubSeq(prod, 1, MantissaBits),
                              IF extra >= 1 THEN prod[MantissaBits + 1] ELSE 0,
                              \E j \in (MantissaBits + 2)..Len(prod) : prod[j] = 1,
                              x.e + extra)

\* The quotient bits of the number whose bits, most significant first, are
\* d[idx], d[idx + 1], ..., by n >= 1, with r < n carried in.
RECURSIVE ShortDiv(_, _, _, _)
ShortDiv(d, idx, r, n) ==
    IF idx > Len(d) THEN <<>>
    ELSE LET t == 2 * r + d[idx]
             b == IF t >= n THEN 1 ELSE 0
         IN  <<b>> \o ShortDiv(d, idx + 1, t - b * n, n)

\* The remainder that division leaves.
RECURSIVE ShortRem(_, _, _, _)
ShortRem(d, idx, r, n) ==
    IF idx > Len(d) THEN r
    ELSE IF 2 * r + d[idx] >= n THEN ShortRem(d, idx + 1, 2 * r + d[idx] - n, n)
    ELSE ShortRem(d, idx + 1, 2 * r + d[idx], n)

\* The double nearest to x / n, for a double x >= 0 and an integer n >= 1:
\* the significand is divided with enough bits after it for the rounding.
DivSmall(x, n) ==
    IF x = Zero THEN Zero
    ELSE LET d == x.m \o [j \in 1..(Len(BinaryOf(n)) + 1) |-> 0]
             q == ShortDiv(d, 1, 0, n)
             rem == ShortRem(d, 1, 0, n)
             lead == Min({j \in 1..Len(q) : q[j] = 1})
         IN  RoundNearestEven(SubSeq(q, lead, lead + MantissaBits - 1),
                              q[lead + MantissaBits],
                              rem # 0 \/ \E j \in (lead + MantissaBits + 1)..Len(q) : q[j] = 1,
                              x.e - (lead - 1))

\* x < y on doubles >= 0.
Less(x, y) ==
    IF y = Zero THEN FALSE
    ELSE IF x = Zero THEN TRUE
    ELSE IF x.e # y.e THEN x.e < y.e
    ELSE \E j \in 1..MantissaBits :
            /\ x.m[j] < y.m[j]
            /\ \A l \in 1..(j - 1) : x.m[l] = y.m[l]

(***************************************************************************)
(* SAMPLER (functional-core.js calculateFrameTimes; the inline computation *)
(* of handleExtractFrames).  Each product and each quotient is rounded to  *)
(* a double as it is computed.                                             *)
(***************************************************************************)
\* The k-th double above x.
RECURSIVE Nudge(_, _)
Nudge(x, k) ==
    IF k = 0 THEN x
    ELSE LET y == NextUp(x)
         IN  IF Len(y.m) = MantissaBits THEN Nudge(y, k - 1) ELSE x

\* The durations a video element reports: the doubles nearest to num / den
\* seconds (0.2, 0.5, 1, 1.3333333333333333, 6, ...) and the doubles next
\* above them (1.3333333333333361 is the 13th above 4/3).
Durations ==
    {Nudge(DivInts(num, den), k) :
        num \in 1..MaxDurationNum, den \in 1..MaxDurationDen, k \in 0..MaxDurationNudge}

\* Mutant: sample times start one interval late ((i + 1) * duration / n).
calculateFrameTimesLate(duration, frameCount) ==
    [i \in 1..frameCount |-> DivSmall(MulSmall(i, duration), frameCount)]

\* Array.from({ length: frameCount }, (_, i) => (i * duration) / frameCount)
calculateFrameTimes(duration, frameCount) ==
    [i \in 1..frameCount |-> DivSmall(MulSmall(i - 1, duration), frameCount)]

\* const interval = duration / frameCount;
ExtractInterval(duration, frameCount) == DivSmall(duration, frameCount)

\* const time = i * interval;
ExtractTime(i, interval) == MulSmall(i, interval)

InitSM ==
    /\ sm \in [pc : {"input"}, duration : Durations, frameCount : 1..MaxSampleCount]
    /\ fc = Off
    /\ cd = Off
    /\ asm = Off
    /\ bt = Off
    /\ ShellOff
    /\ OthersOff

\* calculateFrameTimes(duration, frameCount), and the statements of
\* handleExtractFrames before its loop.
SmCalculate ==
    /\ sm.pc = "input"
    /\ sm' = [pc |-> "loop", duration |-> sm.duration,
              frameCount |-> sm.frameCount,
              times |-> calculateFrameTimes(sm.duration, sm.frameCount),
              interval |-> ExtractInterval(sm.duration, sm.frameCount),
              i |-> 0, seeks |-> <<>>]
    /\ UNCHANGED <<fc, cd, asm, bt, shellVars, otherVars>>

\* One iteration of the loop of handleExtractFrames: the seek target.
SmLoopStep ==
    /\ sm.pc = "loop"
    /\ sm' = [sm EXCEPT !.seeks = Append(@, ExtractTime(sm.i, sm.interval)),
                        !.i = @ + 1,
                        !.pc = IF sm.i + 1 < sm.frameCount THEN "loop" ELSE "done"]
    /\ UNCHANGED <<fc, cd, asm, bt, shellVars, otherVars>>

NextSM == SmCalculate \/ SmLoopStep

SpecSampler == InitSM /\ [][NextSM]_vars

IsPowerOfTwo(i) == \E k \in 0..i : Pow2(k) = i

\* A sequence of doubles that starts at 0, increases strictly and stays
\* below the duration.
WellSpaced(ts, duration) ==
    /\ ts[1] = Zero
    /\ \A j \in 1..(Len(ts) - 1) : Less(ts[j], ts[j + 1])
    /\ \A j \in 1..Len(ts) : Less(ts[j], duration)

\* Two positive doubles with at most one double between them.
WithinTwoUnits(t, u) ==
    \/ u = t
    \/ u = NextUp(t) \/ t = NextUp(u)
    \/ u = NextUp(NextUp(t)) \/ t = NextUp(NextUp(u))

\* C5 (as stated): both computations give frameCount times, starting at 0,
\* strictly increasing and below the duration, and the two agree.
C5_TimesAgree ==
    sm.pc = "done" =>
        /\ Len(sm.times) = sm.frameCount /\ Len(sm.seeks) = sm.frameCount
        /\ WellSpaced(sm.times, sm.duration)
        /\ WellSpaced(sm.seeks, sm.duration)
        /\ sm.seeks = sm.times

\* C5 (amended): both computations give frameCount times, starting at 0,
\* strictly increasing and below the duration; they agree at every index
\* that is 0 or a power of two, and at any other index they differ by at
\* most two units in the last place (i * (d / n) and (i * d) / n are each
\* rounded twice, in different places).
C5_TimesAgreeUpToRounding ==
    sm.pc = "done" =>
        /\ Len(sm.times) = sm.frameCount /\ Len(sm.seeks) = sm.frameCount
        /\ WellSpaced(sm.times, sm.duration)
        /\ WellSpaced(sm.seeks, sm.duration)
        /\ \A i \in 0..(sm.frameCount - 1) :
              LET t == sm.times[i + 1]
                  u == sm.seeks[i + 1]
              IN  IF i = 0 \/ IsPowerOfTwo(i) THEN u = t
                  ELSE WithinTwoUnits(t, u)

\* duration 0.2 s, 5 frames: calculateFrameTimes gives 0.12000000000000002
\* for frame 3 where the seek target is 0.12, two doubles lower.
C5_Witness ==
    /\ sm.pc = "done"
    /\ sm.duration = DivInts(1, 5)
    /\ sm.frameCount = 5
    /\ sm.times[4] = NextUp(NextUp(sm.seeks[4]))

\* C6, ranking part (as stated and as it holds of selectBestCodec): the
\* result is the highest-ranked option whose type is listed, whatever the
\* order of the list; only video/mp4 listed gives {video/mp4, mp4}; nothing
\* ranked listed gives null.
CodecRankingCorrect ==
    cd.pc = "selected" =>
        LET listed == Range(cd.supportedTypes)
            ranks == {k \in DOMAIN CodecOptions : CodecOptions[k].mimeType \in listed}
        IN  /\ ranks = {} <=> cd.codec = Null
            /\ ranks # {} =>
                  /\ cd.codec \in Range(CodecOptions)
                  /\ cd.codec.mimeType \in listed
                  /\ \A k \in ranks : \E j \in 1..k : CodecOptions[j] = cd.codec
            /\ listed \cap RankedTypes = {"video/mp4"} =>
                  cd.codec = [mimeType |-> "video/mp4", extension |-> "mp4"]

(***************************************************************************)
(* VIDEO ASSEMBLER (createVideoFromFrames: effects.js 940-1011, the        *)
(* shell's, and effects.js 279-351, the effects layer's).  The operators   *)
(* below give the state of one call after each of its callbacks.           *)
(***************************************************************************)
MaxAsmFrames == 3

\* The three implementations: the shell's (effects.js 940-1011), the IO one
\* of the effects layer (effects.js 279-351), the legacy page's (part_002
\* 620-692).
AsmVariants == {"shell", "io", "legacy"}

\* The error each implementation rejects with.
ErrNoFrames(variant) ==
    IF variant = "io" THEN "No frames to create video" ELSE "No frames to create video from."
ErrFirstFrame(variant) ==
    IF variant = "io" THEN "Failed to load first frame"
    ELSE IF variant = "legacy" THEN "Could not load first frame to get video dimensions."
    ELSE "Could not load first frame."
ErrNoCodec == "No supported video codec found"
ErrRecorderInit(variant) ==
    IF variant = "io" THEN "Failed to initialize MediaRecorder"
    ELSE IF variant = "legacy"
    THEN "MediaRecorder could not be initialized. Cannot create video."
    ELSE "MediaRecorder could not be initialized."
ErrRecorderEvent == "recorder error event"

\* The ranking filtered by MediaRecorder.isTypeSupported (effects.js 296-301).
SupportedInRankOrder(supported) ==
    SelectSeq([k \in DOMAIN CodecOptions |-> CodecOptions[k].mimeType],
              LAMBDA t : t \in supported)

\* The shell's loop (effects.js 962-973): the first ranked option that is
\* supported and whose recorder can be constructed; Null when there is none.
ShellSelectRecorder(supported, throws) ==
    LET ok == {k \in DOMAIN CodecOptions :
                  /\ CodecOptions[k].mimeType \in supported
                  /\ CodecOptions[k].mimeType \notin throws}
    IN  IF ok = {} THEN Null ELSE CodecOptions[Min(ok)]

Rejected(a, message) ==
    [a EXCEPT !.settled = "rejected", !.outcome = [error |-> message]]

\* createVideoFromFrames(frames, fps) up to its first suspension.
AsmCall(variant, frames) ==
    LET a == [pc |-> "first", variant |-> variant, frames |-> frames, k |-> 0,
              drawn |-> <<>>, started |-> FALSE, stops |-> 0,
              supported |-> {}, throws |-> {}, codec |-> Null,
              settled |-> "pending", outcome |-> Null]
    IN  IF Len(frames) = 0
        THEN [Rejected(a, ErrNoFrames(variant)) EXCEPT !.pc = "end"]
        ELSE a

\* firstImg.onerror
AsmOnFirstError(a) ==
    [Rejected(a, ErrFirstFrame(a.variant)) EXCEPT !.pc = "end"]

\* A variant of firstImg.onload that goes on with the best supported type
\* although no recorder could be constructed.
AsmOnFirstLoadAnyCodec(a, supported, throws) ==
    LET codec == selectBestCodec(SupportedInRankOrder(supported))
    IN  IF codec = Null
        THEN [Rejected(a, IF a.variant = "io" THEN ErrNoCodec ELSE ErrRecorderInit(a.variant))
                EXCEPT !.pc = "end"]
        ELSE [a EXCEPT !.codec = codec, !.started = TRUE, !.k = 1, !.pc = "decode"]

\* firstImg.onload: the host supports the types in supported, and
\* constructing a recorder throws for those in throws.
AsmOnFirstLoad(a, supported, throws) ==
    LET codec == IF a.variant = "io"
                 THEN selectBestCodec(SupportedInRankOrder(supported))
                 ELSE ShellSelectRecorder(supported, throws)
        b == a
    IN  IF codec = Null
        THEN [Rejected(b, IF a.variant = "io" THEN ErrNoCodec ELSE ErrRecorderInit(a.variant))
                EXCEPT !.pc = "end"]
        ELSE IF codec.mimeType \in throws
        THEN [Rejected(b, ErrRecorderInit(a.variant)) EXCEPT !.pc = "end"]
        ELSE [b EXCEPT !.codec = codec, !.started = TRUE, !.k = 1, !.pc = "decode"]

\* A variant of the timer step that stops the recorder after any frame.
AsmOnTimerStopsEarly(a) == [a EXCEPT !.stops = @ + 1, !.pc = "stopping"]

\* The timer of the frame interval fires: the next frame, or recorder.stop().
AsmOnTimer(a) ==
    IF a.k < Len(a.frames)
    THEN [a EXCEPT !.k = @ + 1, !.pc = "decode"]
    ELSE [a EXCEPT !.stops = @ + 1, !.pc = "stopping"]

\* What follows a drawn frame: the shell and the effects layer set the
\* timer of the frame interval (setTimeout(res, 1000 / fps)); the legacy
\* page calls res() at once (part_002 676, 683), so its loop goes on in
\* the same task.
AsmAfterDraw(a) ==
    IF a.variant = "legacy" THEN AsmOnTimer(a) ELSE [a EXCEPT !.pc = "wait"]

\* Mutant: a frame that fails to decode rejects the assembly, as the first
\* frame does.
AsmOnImageErrorRejects(a) ==
    [Rejected(a, ErrFirstFrame(a.variant)) EXCEPT !.pc = "end"]

\* img.onerror in the drawing loop: a black frame, then the frame interval.
AsmOnImageError(a) ==
    AsmAfterDraw([a EXCEPT !.drawn = Append(@, [black |-> TRUE])])

\* img.onload in the drawing loop: the frame, then the frame interval.
AsmOnImageLoad(a) ==
    AsmAfterDraw([a EXCEPT !.drawn = Append(@, [black |-> FALSE, src |-> a.frames[a.k].src])])

\* recorder.onstop: resolve({url, extension}); a settled promise stays as it is.
AsmOnStop(a) ==
    IF a.settled = "pending"
    THEN [a EXCEPT !.settled = "resolved",
                   !.outcome = [url |-> <<"blob:", a.codec.mimeType>>,
                                extension |-> a.codec.extension],
                   !.pc = "end"]
    ELSE [a EXCEPT !.pc = "end"]

\* recorder.onerror = reject
AsmOnRecorderError(a) == Rejected(a, ErrRecorderEvent)

HarnessFrames(n) == [i \in 1..n |-> [src |-> <<"frame", ToString(i)>>]]

InitASM ==
    /\ asm \in {AsmCall(v, HarnessFrames(n)) : v \in AsmVariants, n \in 0..MaxAsmFrames}
    /\ fc = Off
    /\ cd = Off
    /\ sm = Off
    /\ bt = Off
    /\ ShellOff
    /\ OthersOff

AsmFirstLoaded ==
    /\ asm.pc = "first"
    /\ \E supported \in SUBSET RankedTypes : \E throws \in SUBSET supported :
          asm' = [AsmOnFirstLoad(asm, supported, throws) EXCEPT
                     !.supported = supported, !.throws = throws]
    /\ UNCHANGED <<fc, cd, sm, bt, shellVars, otherVars>>

AsmFirstFailed ==
    /\ asm.pc = "first"
    /\ asm' = AsmOnFirstError(asm)
    /\ UNCHANGED <<fc, cd, sm, bt, shellVars, otherVars>>

AsmImageLoaded ==
    /\ asm.pc = "decode"
    /\ asm' = AsmOnImageLoad(asm)
    /\ UNCHANGED <<fc, cd, sm, bt, shellVars, otherVars>>

AsmImageFailed ==
    /\ asm.pc = "decode"
    /\ asm' = AsmOnImageError(asm)
    /\ UNCHANGED <<fc, cd, sm, bt, shellVars, otherVars>>

AsmTimerFired ==
    /\ asm.pc = "wait"
    /\ asm' = AsmOnTimer(asm)
    /\ UNCHANGED <<fc, cd, sm, bt, shellVars, otherVars>>

AsmRecorderStopped ==
    /\ asm.pc = "stopping"
    /\ asm' = AsmOnStop(asm)
    /\ UNCHANGED <<fc, cd, sm, bt, shellVars, otherVars>>

AsmRecorderErrored ==
    /\ asm.pc \in {"decode", "wait", "stopping"}
    /\ asm.settled = "pending"
    /\ asm' = AsmOnRecorderError(asm)
    /\ UNCHANGED <<fc, cd, sm, bt, shellVars, otherVars>>

NextASM ==
    \/ AsmFirstLoaded \/ AsmFirstFailed \/ AsmImageLoaded \/ AsmImageFailed
    \/ AsmTimerFired \/ AsmRecorderStopped \/ AsmRecorderErrored

SpecAssembler == InitASM /\ [][NextASM]_vars

(***************************************************************************)
(* STYLING REQUESTS.  A string of the shell is a sequence of pieces; an     *)
(* image is named by its payload.                                          *)
(***************************************************************************)
Styles == {"Van Gogh", "Pencil Sketch"}

\* createStylePrompt (part_000 269-270)
createStylePrompt(style) == <<"Transform this image into a ", style, " style.">>

\* The request body built for one frame (effects.js 883-891, 95-104).
StyleRequest(frame, prompt) ==
    [data |-> frame.data, mimeType |-> frame.mimeType, text |-> prompt]

\* What the service can answer: a candidate with an image part, a candidate
\* without one, or a thrown error with the given text.
StyledPart(request) ==
    [mimeType |-> <<"image/png">>,
     data |-> <<"styled(">> \o request.data \o <<")">>]
ErrorTexts ==
    {<<"Error: ", "403", " Forbidden">>,
     <<"ApiError: ", "API_KEY_INVALID">>,
     <<"TypeError: ", "Failed to fetch">>}
Responses(request) ==
    {[kind |-> "image", inlineData |-> StyledPart(request)], [kind |-> "noimage"]}
        \cup {[kind |-> "error", text |-> t] : t \in ErrorTexts}

\* Mutant: no error is taken for an authentication failure.
IsAuthErrorNever(text) == FALSE

\* error.toString().includes('403') || ...includes('API_KEY_INVALID')
\* (effects.js 902)
IsAuthError(text) == "403" \in Range(text) \/ "API_KEY_INVALID" \in Range(text)

\* canvas.toDataURL('image/jpeg') of a canvas showing the given picture.
CanvasJpeg(picture) == createDataUrl(<<"image/jpeg">>, picture)

\* The frame object built from a canvas (effects.js 682-687, 927-932).
CanvasFrame(picture) ==
    LET dataUrl == CanvasJpeg(picture)
    IN  [data |-> SplitSecond(dataUrl), mimeType |-> <<"image/jpeg">>, src |-> dataUrl]

(***************************************************************************)
(* EFFECTS-LAYER BATCH STYLER (styleFramesBatch, effects.js 123-142).       *)
(***************************************************************************)
MaxBatch == 3

\* The catch branch (effects.js 134-138): the original frame stands in.
BatchFallback(results, frame) == Append(results, [success |-> TRUE, frame |-> frame])

\* generateStylizedFrame (effects.js 93-113) on a response: the frame made
\* from the image part, or Null for a throw.
generateStylizedFrame(response) ==
    IF response.kind = "image"
    THEN createFrame(response.inlineData.data, response.inlineData.mimeType)
    ELSE Null

\* results.filter(r => r.success).map(r => r.frame)
BatchReturn(results) ==
    LET kept == SelectSeq(results, LAMBDA r : r.success)
    IN  [j \in 1..Len(kept) |-> kept[j].frame]

BatchInputs(n) == [j \in 1..n |-> CanvasFrame(<<"in", ToString(j)>>)]

\* The loop head: onProgress and the next request, or the return.
BatchLoop(b) ==
    IF b.i <= Len(b.frames)
    THEN [b EXCEPT !.pc = "await",
                   !.progress = Append(@, <<b.i, Len(b.frames)>>),
                   !.request = StyleRequest(b.frames[b.i], b.prompt)]
    ELSE [b EXCEPT !.pc = "returned", !.request = Null, !.out = BatchReturn(b.results)]

InitBT ==
    /\ \E n \in 0..MaxBatch : \E style \in Styles :
          bt = BatchLoop([pc |-> "start", frames |-> BatchInputs(n), i |-> 1,
                          prompt |-> createStylePrompt(style), results |-> <<>>,
                          progress |-> <<>>, request |-> Null, out |-> <<>>,
                          outcomes |-> <<>>])
    /\ fc = Off /\ cd = Off /\ sm = Off /\ asm = Off
    /\ ShellOff
    /\ OthersOff

\* A variant of the loop that asks again for a frame whose request failed.
BatchOnResponseRetry(b, response) ==
    LET styledFrame == generateStylizedFrame(response)
    IN  IF styledFrame # Null
        THEN BatchLoop([b EXCEPT !.results = Append(@, [success |-> TRUE,
                                                        frame |-> styledFrame]),
                                 !.i = @ + 1,
                                 !.outcomes = Append(@, response.kind)])
        ELSE BatchLoop([b EXCEPT !.outcomes = Append(@, response.kind)])

\* The try/catch around the awaited request and the rest of the loop
\* (effects.js 130-141): every error takes the catch.
BatchOnResponse(b, response) ==
    LET styledFrame == generateStylizedFrame(response)
        pushed == IF styledFrame # Null
                  THEN Append(b.results, [success |-> TRUE, frame |-> styledFrame])
                  ELSE BatchFallback(b.results, b.frames[b.i])
    IN  BatchLoop([b EXCEPT !.results = pushed, !.i = @ + 1,
                            !.outcomes = Append(@, response.kind)])

BtResponse ==
    /\ bt.pc = "await"
    /\ \E response \in Responses(bt.request) :
          bt' = BatchOnResponse(bt, response)
    /\ UNCHANGED <<fc, cd, sm, asm, shellVars, otherVars>>

NextBT == BtResponse


(***************************************************************************)
(* VIEW (view.js).  The elements record holds what the shell's handlers    *)
(* read or write of the page.                                              *)
(***************************************************************************)
\* renderLoadingState (view.js 201-218)
renderLoadingState(e, isLoading, message) ==
    IF isLoading
    THEN [e EXCEPT !.generateDisabled = TRUE, !.cameraDisabled = TRUE,
                   !.extractDisabled = TRUE, !.uploadAriaDisabled = TRUE,
                   !.loaderVisible = TRUE, !.placeholderText = message,
                   !.placeholderVisible = TRUE]
    ELSE [e EXCEPT !.generateDisabled = FALSE, !.cameraDisabled = FALSE,
                   !.extractDisabled = FALSE, !.uploadAriaDisabled = FALSE,
                   !.loaderVisible = FALSE]

\* renderError (view.js 225-234)
renderError(e, errorMessage) ==
    [e EXCEPT !.placeholderText = <<"Error: ", errorMessage>>,
              !.placeholderVisible = TRUE,
              !.generatedImageWrapperVisible = FALSE,
              !.outputVideoVisible = FALSE,
              !.downloadVisible = FALSE]

\* renderModal (view.js 241-244)
renderModal(e, visible) == [e EXCEPT !.modalVisible = visible]

(***************************************************************************)
(* APPLICATION SHELL (effects.js 412-1077).  A world is the part of the    *)
(* program a handler can change; each operator below is one function of    *)
(* the shell, from a world to the world it leaves.                         *)
(***************************************************************************)
MaxFrameCount == 2
MaxUserEvents == 4

Images == {"A"}
RunIds == {"r1", "r2"}

GoodKey == <<"A", "I", "z", "a", "S", "y", "0", "1", "2", "3", "4">>
ShortKey == <<"A", "I", "z", "a">>
PlaceholderKey == <<"TU_API_KEY_AQUI">>
OtherKey == <<"A", "I", "z", "a", "S", "y", "O", "T", "H", "E", "R", "9">>
Keys == {GoodKey, OtherKey, ShortKey}
\* The keys a build is made with: the placeholder, a key, a key of a wrong
\* format.
BuildKeys == {PlaceholderKey, GoodKey, ShortKey}
\* No key: an unset build variable, a missing localStorage item.
NoKey == <<>>

\* isValidApiKey (part_000 184-185)
isValidApiKey(key) ==
    Len(key) > 10 /\ SubSeq(key, 1, 4) = <<"A", "I", "z", "a">>

Idle == [pc |-> "idle"]

\* No URL: state.downloadableUrl when null, an element without src.
NoUrl == <<>>

\* The hosts the page is run on: every ranked type recorded, none
\* supported, and one whose only supported type cannot be recorded.
Hosts ==
    {[supported |-> RankedTypes, throws |-> {}],
     [supported |-> {}, throws |-> {}],
     [supported |-> {"video/mp4"}, throws |-> {"video/mp4"}]}

\* createAppState (effects.js 438-450); state.ai is the key its client was
\* made with, NoKey for null.
createAppState ==
    [ai |-> NoKey, capturedFrames |-> <<>>, stylizedFrames |-> <<>>,
     mediaType |-> "none", downloadableUrl |-> NoUrl,
     previewAnimation |-> FALSE, outputAnimation |-> FALSE,
     previewIndex |-> 0, currentFrameIndex |-> 0]

\* The page as loaded.
InitialElements(generateDisabled) ==
    [generateDisabled |-> generateDisabled, cameraDisabled |-> FALSE,
     extractDisabled |-> FALSE, uploadAriaDisabled |-> FALSE,
     loaderVisible |-> FALSE, placeholderText |-> <<"placeholder">>,
     placeholderVisible |-> TRUE, generatedImageWrapperVisible |-> FALSE,
     outputVideoVisible |-> FALSE, outputVideoSrc |-> NoUrl,
     downloadVisible |-> FALSE, modalVisible |-> FALSE,
     frameControlsVisible |-> FALSE, imagePreviewVisible |-> FALSE,
     videoPreviewVisible |-> FALSE, videoPreview |-> "none",
     styleSelect |-> "Van Gogh"]

\* Every run that was handed state.capturedFrames holds the array itself;
\* assigning a new array to state.capturedFrames leaves those runs with the
\* old one.
AssignCapturedFrames(w, frames) ==
    [w EXCEPT !.state.capturedFrames = frames,
              !.run = [r \in RunIds |->
                          IF w.run[r].pc # "idle"
                          THEN [w.run[r] EXCEPT !.aliased = FALSE]
                          ELSE w.run[r]]]

\* state.capturedFrames.push(frame): seen by every holder of the array.
PushCapturedFrame(w, frame) ==
    [w EXCEPT !.state.capturedFrames = Append(@, frame),
              !.run = [r \in RunIds |->
                          IF w.run[r].pc # "idle" /\ w.run[r].aliased
                          THEN [w.run[r] EXCEPT !.frames = Append(@, frame)]
                          ELSE w.run[r]]]

\* initializeAI (effects.js 496-510); sdkThrows tells whether the
\* constructor of the client throws.
initializeAI(w, key, sdkThrows) ==
    IF ~isValidApiKey(key)
    THEN [w EXCEPT !.elements = renderError(@, "Invalid API Key format")]
    ELSE IF sdkThrows
    THEN [w EXCEPT !.elements = renderError(@, "Invalid API Key")]
    ELSE [w EXCEPT !.state.ai = key, !.elements = renderModal(@, FALSE)]

\* checkApiKey (effects.js 482-494)
checkApiKey(w, envKey, sdkThrows) ==
    LET isPlaceholder == envKey = NoKey \/ envKey = PlaceholderKey
    IN  IF ~isPlaceholder THEN initializeAI(w, envKey, sdkThrows)
        ELSE IF w.storage # NoKey THEN initializeAI(w, w.storage, sdkThrows)
        ELSE [w EXCEPT !.elements = renderModal(@, TRUE)]

\* stopAnimations (effects.js 843-852).  previewAnimation and
\* outputAnimation tell whether the interval timer is set; previewIndex is
\* the currentIndex of the preview timer's callback and goes with it.
stopAnimations(w) ==
    [w EXCEPT !.state.previewAnimation = FALSE, !.state.outputAnimation = FALSE,
              !.state.previewIndex = 0]

\* startPreviewAnimation (effects.js 1013-1022), the timer callback apart.
startPreviewAnimation(w) ==
    [w EXCEPT !.state.previewAnimation = TRUE, !.state.previewIndex = 0]

\* The callback of the preview timer (effects.js 1016-1021); indices count
\* from 0 as in the source.  Reading .src of a missing element throws, and
\* the callback ends there.
previewTick(w) ==
    LET n == Len(w.state.capturedFrames)
        i == w.state.previewIndex
    IN  IF n > 0 /\ i < n
        THEN [w EXCEPT !.state.previewIndex = (i + 1) % n]
        ELSE w

\* The value of (x + 1) % 0, and of every sum and remainder made from it.
NaN == -1

\* (currentFrameIndex + 1) % stylizedFrames.length (effects.js 1048)
NextFrameIndex(i, n) == IF n = 0 \/ i = NaN THEN NaN ELSE (i + 1) % n

\* The callback of the output timer (effects.js 1047-1061): the index is
\* stored before the frame is read.
outputTick(w) ==
    [w EXCEPT !.state.currentFrameIndex =
                  NextFrameIndex(@, Len(w.state.stylizedFrames))]

\* resetState (effects.js 814-841)
resetState(w) ==
    LET a == AssignCapturedFrames(stopAnimations(w), <<>>)
    IN  [a EXCEPT !.state.stylizedFrames = <<>>,
                  !.state.mediaType = "none",
                  !.state.downloadableUrl = NoUrl,
                  !.elements.generateDisabled = TRUE,
                  !.elements.imagePreviewVisible = FALSE,
                  !.elements.videoPreviewVisible = FALSE,
                  !.elements.frameControlsVisible = FALSE,
                  !.elements.videoPreview = "none",
                  !.elements.outputVideoVisible = FALSE,
                  !.elements.outputVideoSrc = NoUrl,
                  !.elements.generatedImageWrapperVisible = FALSE,
                  !.elements.downloadVisible = FALSE]

\* startOutputAnimation (effects.js 1024-1062)
startOutputAnimation(w) ==
    [w EXCEPT !.elements.placeholderVisible = FALSE,
              !.elements.outputVideoVisible = FALSE,
              !.elements.outputVideoSrc = NoUrl,
              !.elements.generatedImageWrapperVisible = TRUE,
              !.state.currentFrameIndex =
                  IF Len(w.state.stylizedFrames) = 0 THEN @ ELSE 0,
              !.state.outputAnimation = Len(w.state.stylizedFrames) > 1]

\* fileToGenerativePart (effects.js 854-872) of an image file whose
\* content is the picture x, once the reader has produced its data URL.
fileToGenerativePart(x) ==
    LET type == <<"image/png">>
        result == createDataUrl(type, <<x>>)
    IN  [mimeType |-> type, data |-> SplitSecond(result), src |-> result]

\* The three pushes of styleFrames (effects.js 893-898, 909): the data URL
\* of the returned image part, else the src of the frame that was sent.
PushStyledResult(styledResults, frame, response) ==
    IF response.kind = "image"
    THEN Append(styledResults,
                [src |-> createDataUrl(response.inlineData.mimeType,
                                       response.inlineData.data)])
    ELSE Append(styledResults, [src |-> frame.src])

\* styleFrames (effects.js 874-878) called by run r: nothing styled yet.
\* frames is the array the call reads, which its caller may share with
\* state.capturedFrames; given keeps the sequence as it was at the call.
BeginStyleFrames(w, r, phase, framesToStyle, aliased, loadingMessagePrefix) ==
    [w EXCEPT !.run[r] =
        [pc |-> "api", phase |-> phase, frames |-> framesToStyle,
         given |-> framesToStyle,
         aliased |-> aliased, i |-> 1, frame |-> Null,
         prompt |-> createStylePrompt(w.elements.styleSelect),
         styledResults |-> <<>>, prefix |-> loadingMessagePrefix,
         request |-> Null, issued |-> w.run[r].issued, asm |-> Null]]

\* One pass of the loop body up to its await (effects.js 880-891).
IssueRequest(w, r) ==
    LET R == w.run[r]
        frame == R.frames[R.i]
    IN  [w EXCEPT !.elements = renderLoadingState(@, TRUE,
                        <<R.prefix, ToString(R.i), "of", ToString(Len(R.frames))>>),
                  !.run[r].frame = frame,
                  !.run[r].request = StyleRequest(frame, R.prompt),
                  !.run[r].issued = @ + 1]

\* The rest of generateSingleImage once styleFrames has returned
\* (effects.js 736-746, 752-754).
SingleStyled(w, r) ==
    LET styledFrames == w.run[r].styledResults
        a == [w EXCEPT !.state.stylizedFrames = styledFrames, !.run[r] = Idle]
        b == IF Len(styledFrames) = 0
             THEN [a EXCEPT !.elements = renderError(@,
                      "The model did not return an image. Please try again.")]
             ELSE [startOutputAnimation(a) EXCEPT
                      !.state.downloadableUrl = styledFrames[1].src,
                      !.elements.downloadVisible = TRUE]
    IN  [b EXCEPT !.elements = renderLoadingState(@, FALSE, <<>>)]

\* The catch and finally of the second try block (effects.js 801-807) for
\* an error other than "Invalid API Key".
FinalVideoFailed(w, r) ==
    LET a == [w EXCEPT !.elements = renderError(@,
                 "Failed to generate final video, but the preview is available.")]
    IN  [a EXCEPT !.elements = renderLoadingState(@, FALSE, <<>>), !.run[r] = Idle]

\* The second pass once styleFrames has returned (effects.js 782-787).
Pass2Styled(w, r) ==
    LET styledHighResFrames == w.run[r].styledResults
        a == IF Len(styledHighResFrames) # Len(w.state.capturedFrames)
             THEN [w EXCEPT !.elements = renderError(@, "Could not stylize all frames")]
             ELSE w
        b == [a EXCEPT !.elements = renderLoadingState(@, TRUE, <<"Encoding final video...">>),
                       !.run[r].pc = "asm",
                       !.run[r].request = Null,
                       !.run[r].asm = AsmCall("shell", styledHighResFrames)]
    IN  IF b.run[r].asm.settled = "rejected" THEN FinalVideoFailed(b, r) ELSE b

\* A variant of the catch of the first try block that reports nothing.
PreviewFailedSilently(w, r) ==
    [w EXCEPT !.elements = renderLoadingState(@, FALSE, <<>>), !.run[r] = Idle]

\* The catch of the first try block (effects.js 770-776) for an error
\* other than "Invalid API Key".
PreviewFailed(w, r) ==
    LET a == [w EXCEPT !.elements = renderError(@,
                 "Could not generate a preview. Please try again.")]
    IN  [a EXCEPT !.elements = renderLoadingState(@, FALSE, <<>>), !.run[r] = Idle]

\* The first pass once styleFrames has returned, and the start of the
\* second (effects.js 764-769, 780).
Pass1Styled(w, r) ==
    LET styledLowResFrames == w.run[r].styledResults
    IN  IF Len(styledLowResFrames) = 0 THEN PreviewFailed(w, r)
        ELSE LET a == startOutputAnimation(
                         [w EXCEPT !.state.stylizedFrames = styledLowResFrames])
                 b == BeginStyleFrames(a, r, "p2", a.state.capturedFrames, TRUE,
                                       "Styling high-quality frame")
             IN  IF Len(b.run[r].frames) = 0 THEN Pass2Styled(b, r)
                 ELSE IssueRequest(b, r)

\* The loop head of styleFrames (effects.js 879, 913): the next request,
\* or the return to the caller.
StyleLoop(w, r) ==
    LET R == w.run[r]
    IN  IF R.i <= Len(R.frames) THEN IssueRequest(w, r)
        ELSE IF R.phase = "single" THEN SingleStyled(w, r)
        ELSE IF R.phase = "p1" THEN Pass1Styled(w, r)
        ELSE Pass2Styled(w, r)

\* A variant of the authentication branch that leaves the stored key in
\* place.
StyleAuthFailedKeepsKey(w, r) ==
    LET a == [w EXCEPT !.elements = renderModal(
                            renderError(@, "API Key Invalid. Please check your settings."),
                            TRUE)]
    IN  IF w.run[r].phase = "p1"
        THEN [a EXCEPT !.run[r] = Idle]
        ELSE [a EXCEPT !.elements = renderLoadingState(@, FALSE, <<>>), !.run[r] = Idle]

\* The authentication branch of styleFrames (effects.js 902-907) and what
\* its caller does with the throw (effects.js 747-754, 771, 802-807).
StyleAuthFailed(w, r) ==
    LET a == [w EXCEPT !.elements = renderModal(
                            renderError(@, "API Key Invalid. Please check your settings."),
                            TRUE),
                       !.storage = NoKey]
    IN  IF w.run[r].phase = "p1"
        THEN [a EXCEPT !.run[r] = Idle]
        ELSE [a EXCEPT !.elements = renderLoadingState(@, FALSE, <<>>), !.run[r] = Idle]

\* The continuation of styleFrames when the service answers (effects.js
\* 893-911).
OnResponse(w, r, response) ==
    LET R == w.run[r]
    IN  IF response.kind = "error" /\ IsAuthError(response.text)
        THEN StyleAuthFailed(w, r)
        ELSE StyleLoop([w EXCEPT
                 !.run[r].styledResults = PushStyledResult(@, R.frame, response),
                 !.run[r].i = @ + 1], r)

\* createLowResFrames has resolved (effects.js 761-762, 916-938).
OnLowResFrames(w, r) ==
    LET lowResFrames == [j \in 1..Len(w.run[r].frames) |->
                            CanvasFrame(<<"low(">> \o SplitSecond(w.run[r].frames[j].src)
                                        \o <<")">>)]
    IN  StyleLoop(BeginStyleFrames(w, r, "p1", lowResFrames, FALSE,
                                   "Styling preview frame"), r)

\* The continuation of processVideoWithProgressivePreview when the
\* assembler has settled (effects.js 787-808).
OnVideoSettled(w, r) ==
    LET video == w.run[r].asm
    IN  IF video.settled = "rejected" THEN FinalVideoFailed(w, r)
        ELSE LET a == stopAnimations(w)
             IN  [a EXCEPT !.elements = renderLoadingState(
                               [@ EXCEPT !.generatedImageWrapperVisible = FALSE,
                                         !.placeholderVisible = FALSE,
                                         !.outputVideoSrc = video.outcome.url,
                                         !.outputVideoVisible = TRUE,
                                         !.downloadVisible = TRUE],
                               FALSE, <<>>),
                           !.state.downloadableUrl = video.outcome.url,
                           !.run[r] = Idle]

\* handleGenerate (effects.js 710-729) up to the first await of the path
\* it takes (effects.js 731-735, 759-761).
handleGenerate(w, r) ==
    IF w.state.ai = NoKey
    THEN [w EXCEPT !.elements = renderModal(renderError(@,
              "API Key is missing. Please configure it in settings."), TRUE)]
    ELSE IF Len(w.state.capturedFrames) = 0
    THEN [w EXCEPT !.elements = renderError(@,
              "Please upload an image or extract frames first.")]
    ELSE LET a == [stopAnimations(w) EXCEPT !.run[r] = [pc |-> "called", issued |-> 0]]
         IN  IF Len(a.state.capturedFrames) = 1
             THEN IssueRequest(
                     BeginStyleFrames(
                        [a EXCEPT !.elements = renderLoadingState(@, TRUE,
                                      <<"Applying artistic style...">>)],
                        r, "single", a.state.capturedFrames, TRUE, "Styling image"), r)
             ELSE [BeginStyleFrames(
                      [a EXCEPT !.elements = renderLoadingState(@, TRUE,
                                    <<"Generating low-quality preview...">>)],
                      r, "p1", a.state.capturedFrames, FALSE, "Styling preview frame")
                   EXCEPT !.run[r].pc = "lowres"]

World == [state |-> state, elements |-> elements, run |-> run, storage |-> storage]

Becomes(w) ==
    /\ state' = w.state
    /\ elements' = w.elements
    /\ run' = w.run
    /\ storage' = w.storage
    /\ UNCHANGED <<build, fc, cd, sm, asm, bt, otherVars>>

FreshWorld(generateDisabled, storedKey) ==
    [state |-> createAppState, elements |-> InitialElements(generateDisabled),
     run |-> [r \in RunIds |-> Idle], storage |-> storedKey]

\* No file read is pending.
NoReads == [x \in Images |-> 0]

\* No extraction: no listener is registered and the video does not seek.
NoExtraction == [calls |-> <<>>, seek |-> <<>>]

\* The page after initializeApp (effects.js 471-476), for every build key
\* and stored key.
InitShell ==
    /\ \E envKey \in BuildKeys :
       \E storedKey \in {NoKey, GoodKey, ShortKey} :
       \E sdkThrows \in BOOLEAN :
          LET w == checkApiKey(FreshWorld(FALSE, storedKey), envKey, sdkThrows)
          IN  /\ state = w.state
              /\ elements = w.elements
              /\ run = w.run
              /\ storage = w.storage
              /\ build = envKey
    /\ reading = NoReads
    /\ ex = NoExtraction
    /\ clicks = 0
    /\ fc = Off /\ cd = Off /\ sm = Off /\ asm = Off /\ bt = Off
    /\ OthersOff

\* A seek of the video cannot complete once its source has been cleared;
\* the listeners stay on the element.
StallExtraction == [ex EXCEPT !.seek = <<>>]

\* handleSaveApiKey (effects.js 512-520) with a non-empty key; the save
\* button belongs to the key modal.
SaveApiKey ==
    /\ state # Off
    /\ clicks < MaxUserEvents
    /\ clicks' = clicks + 1
    /\ elements.modalVisible
    /\ \E key \in Keys : \E sdkThrows \in BOOLEAN :
          Becomes(initializeAI([World EXCEPT !.storage = key], key, sdkThrows))
    /\ UNCHANGED <<reading, ex>>

\* handleResetApiKey (effects.js 522-525): the stored key is removed and
\* the page is loaded again, which ends everything the old page had
\* pending and runs initializeApp on a new one.
ResetApiKey ==
    /\ state # Off
    /\ clicks < MaxUserEvents
    /\ clicks' = clicks + 1
    /\ \E sdkThrows \in BOOLEAN :
          Becomes(checkApiKey(FreshWorld(FALSE, NoKey), build, sdkThrows))
    /\ reading' = NoReads
    /\ ex' = NoExtraction

\* handleMediaUpload with a file that is neither an image nor a video
\* (effects.js 568-570).
UploadOther ==
    /\ state # Off
    /\ clicks < MaxUserEvents
    /\ clicks' = clicks + 1
    /\ Becomes([World EXCEPT !.elements =
                    renderError(@, "Unsupported file type. Please upload an image or video.")])
    /\ UNCHANGED <<reading, ex>>

\* handleMediaUpload with an image file, up to the await of the file
\* reader (effects.js 560-565, 574-579).  Every upload starts a read of its
\* own, whatever reads are pending.
UploadImage ==
    /\ state # Off
    /\ clicks < MaxUserEvents
    /\ clicks' = clicks + 1
    /\ \E x \in Images :
          /\ Becomes([resetState(World) EXCEPT !.state.mediaType = "image"])
          /\ reading' = [reading EXCEPT ![x] = @ + 1]
    /\ ex' = StallExtraction

\* The file reader has finished with a string (effects.js 580-588).
ImageRead ==
    /\ state # Off
    /\ UNCHANGED clicks
    /\ \E x \in Images :
          /\ reading[x] > 0
          /\ LET a == AssignCapturedFrames(World, <<fileToGenerativePart(x)>>)
             IN  Becomes([a EXCEPT !.elements.imagePreviewVisible = TRUE,
                                   !.elements.videoPreviewVisible = FALSE,
                                   !.elements.frameControlsVisible = FALSE,
                                   !.elements.generateDisabled = FALSE])
          /\ reading' = [reading EXCEPT ![x] = @ - 1]
    /\ UNCHANGED ex

\* The file reader has failed (effects.js 589-592).
ImageReadFailed ==
    /\ state # Off
    /\ UNCHANGED clicks
    /\ \E x \in Images :
          /\ reading[x] > 0
          /\ Becomes([World EXCEPT !.elements =
                         renderError(@, "Could not process the uploaded file.")])
          /\ reading' = [reading EXCEPT ![x] = @ - 1]
    /\ UNCHANGED ex

\* handleMediaUpload with a video file (effects.js 566-567, 595-605).
UploadVideo ==
    /\ state # Off
    /\ clicks < MaxUserEvents
    /\ clicks' = clicks + 1
    /\ Becomes([resetState(World) EXCEPT !.state.mediaType = "video",
                                         !.elements.videoPreview = "loading",
                                         !.elements.videoPreviewVisible = TRUE,
                                         !.elements.imagePreviewVisible = FALSE,
                                         !.elements.frameControlsVisible = TRUE])
    /\ ex' = StallExtraction
    /\ UNCHANGED reading

\* The video element has data for its current position (readyState >= 2).
VideoReady ==
    /\ state # Off
    /\ UNCHANGED clicks
    /\ elements.videoPreview = "loading"
    /\ elements' = [elements EXCEPT !.videoPreview = "ready"]
    /\ UNCHANGED <<state, run, storage, reading, ex>>
    /\ UNCHANGED <<build, fc, cd, sm, asm, bt, otherVars>>

\* handleExtractFrames up to its first await (effects.js 658-692).  ex
\* holds the calls that wait in their loop, each with its 'seeked'
\* listener on the video element, in the order of registration, and the
\* seek the video is performing, as the index i of its time i * interval.
\* Nothing in the handler looks for a call that is waiting already.
ExtractClick ==
    /\ state # Off
    /\ clicks < MaxUserEvents
    /\ clicks' = clicks + 1
    /\ elements.frameControlsVisible
    /\ ~elements.extractDisabled
    /\ IF elements.videoPreview # "ready"
       THEN /\ Becomes([World EXCEPT !.elements = renderError(@, "Video is not ready yet.")])
            /\ UNCHANGED ex
       ELSE \E frameCount \in 1..MaxFrameCount :
            /\ Becomes(AssignCapturedFrames(
                          [World EXCEPT !.elements = renderLoadingState(@, TRUE,
                                            <<"Extracting frames...">>)],
                          <<>>))
            /\ ex' = [calls |-> Append(ex.calls, [frameCount |-> frameCount, i |-> 0]),
                      seek |-> <<0>>]
    /\ UNCHANGED reading

\* The end of handleExtractFrames (effects.js 695-703).
ExtractEnd(w) ==
    startPreviewAnimation([w EXCEPT
        !.elements = [renderLoadingState(@, FALSE, <<>>) EXCEPT
                         !.videoPreviewVisible = FALSE,
                         !.frameControlsVisible = FALSE,
                         !.imagePreviewVisible = TRUE,
                         !.generateDisabled = FALSE]])

\* The 'seeked' event with the video at position p: the listeners that
\* were registered run in their order; each captures the picture the
\* video shows, and its call goes on to its next seek (which replaces the
\* seek an earlier call has asked for) or to its end (effects.js 679-703).
\* d is the world, the calls that wait and the seek asked for so far.
RECURSIVE DispatchSeeked(_, _, _)
DispatchSeeked(d, listeners, p) ==
    IF listeners = <<>> THEN d
    ELSE LET call == Head(listeners)
             a == PushCapturedFrame(d.w, CanvasFrame(<<"video@", ToString(p)>>))
         IN  IF call.i + 1 < call.frameCount
             THEN DispatchSeeked([w |-> a,
                                  calls |-> Append(d.calls, [call EXCEPT !.i = @ + 1]),
                                  seek |-> <<call.i + 1>>],
                                 Tail(listeners), p)
             ELSE DispatchSeeked([d EXCEPT !.w = ExtractEnd(a)], Tail(listeners), p)

\* The video element reports the end of its seek.
VideoSeeked ==
    /\ state # Off
    /\ UNCHANGED clicks
    /\ ex.seek # <<>>
    /\ LET d == DispatchSeeked([w |-> World, calls |-> <<>>, seek |-> <<>>],
                               ex.calls, ex.seek[1])
       IN  /\ Becomes(d.w)
           /\ ex' = [calls |-> d.calls, seek |-> d.seek]
    /\ UNCHANGED reading

\* The user picks another entry of the style selector; no handler listens
\* to it, and renderLoadingState leaves the selector enabled (view.js
\* 201-218).
ChangeStyle ==
    /\ state # Off
    /\ clicks < MaxUserEvents
    /\ clicks' = clicks + 1
    /\ \E style \in Styles \ {elements.styleSelect} :
          Becomes([World EXCEPT !.elements.styleSelect = style])
    /\ UNCHANGED <<reading, ex>>

\* A click on the generate button.
GenerateClick ==
    /\ state # Off
    /\ clicks < MaxUserEvents
    /\ clicks' = clicks + 1
    /\ ~elements.generateDisabled
    /\ \E r \in RunIds :
          /\ run[r].pc = "idle"
          /\ \A q \in RunIds : run[q].pc = "idle" => r = "r1" \/ q = "r2"
          /\ Becomes(handleGenerate(World, r))
    /\ UNCHANGED <<reading, ex>>

\* generateContent settles for the outstanding request of a run.
ApiResponse ==
    /\ state # Off
    /\ UNCHANGED clicks
    /\ \E r \in RunIds :
          /\ run[r].pc = "api"
          /\ \E response \in Responses(run[r].request) :
                Becomes(OnResponse(World, r, response))
    /\ UNCHANGED <<reading, ex>>

\* Every image of createLowResFrames has loaded.
LowResFramesReady ==
    /\ state # Off
    /\ UNCHANGED clicks
    /\ \E r \in RunIds :
          /\ run[r].pc = "lowres"
          /\ Becomes(OnLowResFrames(World, r))
    /\ UNCHANGED <<reading, ex>>

\* An image of createLowResFrames has failed to load.
LowResFramesFailed ==
    /\ state # Off
    /\ UNCHANGED clicks
    /\ \E r \in RunIds :
          /\ run[r].pc = "lowres"
          /\ Becomes(PreviewFailed(World, r))
    /\ UNCHANGED <<reading, ex>>

\* Run r's assembler goes to a, and the run goes on if that settled it.
VideoStep(r, a) ==
    LET w == [World EXCEPT !.run[r].asm = a]
    IN  /\ Becomes(IF a.settled # "pending" THEN OnVideoSettled(w, r) ELSE w)
        /\ UNCHANGED <<reading, ex, clicks>>

VideoFirstLoaded ==
    state # Off /\ \E r \in RunIds :
        /\ run[r].pc = "asm" /\ run[r].asm.pc = "first"
        /\ \E host \in Hosts :
              VideoStep(r, AsmOnFirstLoad(run[r].asm, host.supported, host.throws))

VideoFirstFailed ==
    state # Off /\ \E r \in RunIds :
        /\ run[r].pc = "asm" /\ run[r].asm.pc = "first"
        /\ VideoStep(r, AsmOnFirstError(run[r].asm))

VideoImageLoaded ==
    state # Off /\ \E r \in RunIds :
        /\ run[r].pc = "asm" /\ run[r].asm.pc = "decode"
        /\ VideoStep(r, AsmOnImageLoad(run[r].asm))

VideoImageFailed ==
    state # Off /\ \E r \in RunIds :
        /\ run[r].pc = "asm" /\ run[r].asm.pc = "decode"
        /\ VideoStep(r, AsmOnImageError(run[r].asm))

VideoTimerFired ==
    state # Off /\ \E r \in RunIds :
        /\ run[r].pc = "asm" /\ run[r].asm.pc = "wait"
        /\ VideoStep(r, AsmOnTimer(run[r].asm))

VideoRecorderStopped ==
    state # Off /\ \E r \in RunIds :
        /\ run[r].pc = "asm" /\ run[r].asm.pc = "stopping"
        /\ VideoStep(r, AsmOnStop(run[r].asm))

VideoRecorderErrored ==
    state # Off /\ \E r \in RunIds :
        /\ run[r].pc = "asm" /\ run[r].asm.pc \in {"decode", "wait", "stopping"}
        /\ VideoStep(r, AsmOnRecorderError(run[r].asm))

\* The 200 ms timer of startPreviewAnimation fires.
PreviewTimerFired ==
    /\ state # Off
    /\ state.previewAnimation
    /\ Becomes(previewTick(World))
    /\ UNCHANGED <<reading, ex, clicks>>

\* The 400 ms timer of startOutputAnimation fires.
OutputTimerFired ==
    /\ state # Off
    /\ state.outputAnimation
    /\ Becomes(outputTick(World))
    /\ UNCHANGED <<reading, ex, clicks>>

NextShell ==
    \/ SaveApiKey \/ ResetApiKey \/ UploadImage \/ UploadOther \/ ImageRead \/ ImageReadFailed
    \/ UploadVideo \/ VideoReady \/ ExtractClick \/ VideoSeeked
    \/ ChangeStyle \/ GenerateClick \/ ApiResponse \/ LowResFramesReady
    \/ LowResFramesFailed
    \/ VideoFirstLoaded \/ VideoFirstFailed \/ VideoImageLoaded \/ VideoImageFailed
    \/ VideoTimerFired \/ VideoRecorderStopped \/ VideoRecorderErrored
    \/ PreviewTimerFired \/ OutputTimerFired

(***************************************************************************)
(* THE LEGACY PAGE (part_002).                                             *)
(*                                                                         *)
(* lx is one legacy page: its module variables (state), its elements, the  *)
(* stored key, its pending calls of styleFrames (run), the file reads that *)
(* are pending, and its frame extraction: the seeks the last call of       *)
(* handleExtractFrames has issued (as indices i of the times i *           *)
(* interval), the 'seeked' listeners that are registered, and whether the  *)
(* video is seeking.  The video element completes only the seek issued     *)
(* last: setting currentTime while a seek is in progress abandons that     *)
(* seek, and the 'seeked' event is dispatched from a task of its own.  The *)
(* two interval timers of the page change only the pictures shown.         *)
(***************************************************************************)
MaxLegacyFrames == 2
MaxLegacyEvents == 4

\* String.prototype.trim on a text whose blanks are the " " pieces.
RECURSIVE TrimLeft(_)
TrimLeft(text) ==
    IF text # <<>> /\ Head(text) = " " THEN TrimLeft(Tail(text)) ELSE text
Trim(text) == Reverse(TrimLeft(Reverse(TrimLeft(text))))

\* showError of the legacy page (part_002 403-410)
showError(e, message) ==
    [e EXCEPT !.placeholderText = <<"Error: ", message>>,
              !.placeholderVisible = TRUE,
              !.generatedImageWrapperVisible = FALSE,
              !.outputVideoVisible = FALSE,
              !.downloadVisible = FALSE]

\* What the user may have typed into the key input of the legacy page.
LegacyTyped == {<<>>, <<" ">>, GoodKey, OtherKey, ShortKey, <<" ">> \o GoodKey \o <<" ">>}

\* The module variables of the page (part_002 23, 60-68); ai is the key its
\* client was made with, NoKey for null, and outputAnimationInterval tells
\* whether the variable holds a timer (clearInterval leaves it there).
LegacyState ==
    [ai |-> NoKey, capturedFrames |-> <<>>, stylizedFrames |-> <<>>,
     mediaType |-> "none", downloadableUrl |-> NoUrl,
     outputAnimationInterval |-> FALSE]

\* The legacy page of a build as loaded, before checkApiKey, after the
\* given number of user events.
LegacyFreshPage(envKey, storedKey, events) ==
    [envKey |-> envKey, storage |-> storedKey, state |-> LegacyState,
     elements |-> InitialElements(FALSE), run |-> [r \in RunIds |-> Idle],
     alerted |-> FALSE, reading |-> NoReads,
     pc |-> "ready", frameCount |-> 0, seeks |-> <<>>, listeners |-> <<>>,
     seeking |-> FALSE, clicks |-> events]

\* setLoading (part_002 748-772): the output stays visible while
\* outputAnimationInterval holds a timer.
LegacySetLoading(l, isLoading, message) ==
    IF isLoading
    THEN [l EXCEPT !.elements =
             [@ EXCEPT !.generateDisabled = TRUE, !.cameraDisabled = TRUE,
                       !.extractDisabled = TRUE, !.uploadAriaDisabled = TRUE,
                       !.loaderVisible = TRUE,
                       !.generatedImageWrapperVisible =
                           IF l.state.outputAnimationInterval THEN @ ELSE FALSE,
                       !.outputVideoVisible =
                           IF l.state.outputAnimationInterval THEN @ ELSE FALSE,
                       !.placeholderText = message,
                       !.placeholderVisible = TRUE]]
    ELSE [l EXCEPT !.elements =
             [@ EXCEPT !.generateDisabled = FALSE, !.cameraDisabled = FALSE,
                       !.extractDisabled = FALSE, !.uploadAriaDisabled = FALSE,
                       !.loaderVisible = FALSE]]

LegacyShowError(l, message) == [l EXCEPT !.elements = showError(@, message)]

\* initializeAI (part_002 157-165); there is no check of the format.
LegacyInitializeAI(l, key, sdkThrows) ==
    IF sdkThrows
    THEN LegacyShowError(l, "Invalid API Key format.")
    ELSE [l EXCEPT !.state.ai = key]

\* saveApiKey (part_002 142-151)
LegacySaveApiKey(l, typed, sdkThrows) ==
    LET key == Trim(typed)
    IN  IF Len(key) > 0
        THEN [LegacyInitializeAI([l EXCEPT !.storage = key], key, sdkThrows)
                 EXCEPT !.elements.modalVisible = FALSE]
        ELSE [l EXCEPT !.alerted = TRUE]

\* checkApiKey (part_002 120-137)
LegacyCheckApiKey(l, envKey, sdkThrows) ==
    LET isPlaceholder == envKey = NoKey \/ envKey = PlaceholderKey
    IN  IF ~isPlaceholder THEN LegacyInitializeAI(l, envKey, sdkThrows)
        ELSE IF l.storage # NoKey THEN LegacyInitializeAI(l, l.storage, sdkThrows)
        ELSE [l EXCEPT !.elements.modalVisible = TRUE]

\* resetState (part_002 171-197); a seek of the video cannot complete once
\* its source has been cleared, and the listeners stay on the element.
LegacyResetState(l) ==
    LET a == AssignCapturedFrames(l, <<>>)
    IN  [a EXCEPT !.state.outputAnimationInterval = FALSE,
                  !.state.stylizedFrames = <<>>,
                  !.state.mediaType = "none",
                  !.state.downloadableUrl = NoUrl,
                  !.elements.generateDisabled = TRUE,
                  !.elements.imagePreviewVisible = FALSE,
                  !.elements.videoPreviewVisible = FALSE,
                  !.elements.frameControlsVisible = FALSE,
                  !.elements.videoPreview = "none",
                  !.elements.outputVideoVisible = FALSE,
                  !.elements.outputVideoSrc = NoUrl,
                  !.elements.generatedImageWrapperVisible = FALSE,
                  !.elements.downloadVisible = FALSE,
                  !.seeking = FALSE]

\* processImageFile up to the await of the file reader (part_002 244-250),
\* the file holding the picture x.
LegacyProcessImageFile(l, x) ==
    [LegacyResetState(l) EXCEPT !.state.mediaType = "image",
                                !.reading[x] = @ + 1]

\* The rest of processImageFile (part_002 250-261): the reader has ended
\* with a string (ok) or not.
LegacyOnImageRead(l, x, ok) ==
    LET a == [l EXCEPT !.reading[x] = @ - 1]
    IN  IF ok
        THEN [AssignCapturedFrames(a, <<fileToGenerativePart(x)>>) EXCEPT
                 !.elements.imagePreviewVisible = TRUE,
                 !.elements.generateDisabled = FALSE]
        ELSE LegacyShowError(a, "Could not process the uploaded file.")

\* processVideoFile (part_002 267-276)
LegacyProcessVideoFile(l) ==
    [LegacyResetState(l) EXCEPT !.state.mediaType = "video",
                                !.elements.videoPreview = "loading",
                                !.elements.videoPreviewVisible = TRUE,
                                !.elements.frameControlsVisible = TRUE]

\* handleMediaUpload (part_002 226-238) with a file of the given kind;
\* x is the picture of an image file.
LegacyHandleMediaUpload(l, kind, x) ==
    IF kind = "image" THEN LegacyProcessImageFile(l, x)
    ELSE IF kind = "video" THEN LegacyProcessVideoFile(l)
    ELSE LegacyShowError(l, "Unsupported file type. Please upload an image or video.")

\* The loop of part_002 353-370: each executor registers its listener and
\* sets currentTime, and none of them waits.
RECURSIVE LegacyExtractLoop(_, _)
LegacyExtractLoop(l, i) ==
    IF i < l.frameCount
    THEN LegacyExtractLoop([l EXCEPT !.listeners = Append(@, i),
                                     !.seeks = Append(@, i),
                                     !.seeking = TRUE], i + 1)
    ELSE l

\* handleExtractFrames up to its await (part_002 333-372).  Nothing in the
\* handler looks for a call that is waiting already.
LegacyHandleExtractFrames(l, frameCountVal) ==
    IF l.elements.videoPreview # "ready"
    THEN LegacyShowError(l, "Video is not ready yet.")
    ELSE LegacyExtractLoop(
             [AssignCapturedFrames(LegacySetLoading(l, TRUE, <<"Extracting frames...">>),
                                   <<>>)
                 EXCEPT !.pc = "waiting", !.frameCount = frameCountVal, !.seeks = <<>>],
             0)

\* seekedListener (part_002 355-366) with the video at position index p.
LegacySeekedListener(l, p) ==
    [PushCapturedFrame(l, CanvasFrame(<<"video@", ToString(p)>>)) EXCEPT
        !.listeners = Tail(@)]

\* The dispatch of one 'seeked' event to the listeners registered at that
\* moment, in the order of their registration.
RECURSIVE LegacyDispatchSeeked(_, _, _)
LegacyDispatchSeeked(l, p, pending) ==
    IF pending = 0 THEN l
    ELSE LegacyDispatchSeeked(LegacySeekedListener(l, p), p, pending - 1)

\* The rest of handleExtractFrames once every capture promise is resolved
\* (part_002 372-383).
LegacyExtractEnd(l) ==
    IF l.listeners = <<>>
    THEN [LegacySetLoading(l, FALSE, <<>>) EXCEPT
             !.pc = "done",
             !.elements.videoPreviewVisible = FALSE,
             !.elements.frameControlsVisible = FALSE,
             !.elements.imagePreviewVisible = TRUE,
             !.elements.generateDisabled = FALSE]
    ELSE l

\* startOutputAnimation (part_002 702-741)
LegacyStartOutputAnimation(l) ==
    [l EXCEPT !.elements.placeholderVisible = FALSE,
              !.elements.outputVideoVisible = FALSE,
              !.elements.outputVideoSrc = NoUrl,
              !.elements.generatedImageWrapperVisible = TRUE,
              !.state.outputAnimationInterval =
                  IF Len(l.state.stylizedFrames) > 1 THEN TRUE ELSE @]

\* One pass of the loop body of styleFrames up to its await (part_002
\* 449-457).
LegacyIssueRequest(l, r) ==
    LET R == l.run[r]
        frame == R.frames[R.i]
        a == LegacySetLoading(l, TRUE,
                 <<R.prefix, ToString(R.i), "of", ToString(Len(R.frames))>>)
    IN  [a EXCEPT !.run[r].frame = frame,
                  !.run[r].request = StyleRequest(frame, R.prompt),
                  !.run[r].issued = @ + 1]

\* The rest of generateSingleImage once styleFrames has returned (part_002
\* 498-517).
LegacySingleStyled(l, r) ==
    LET styledResults == l.run[r].styledResults
        a == [l EXCEPT !.state.stylizedFrames = styledResults, !.run[r] = Idle]
        b == IF Len(styledResults) = 0
             THEN LegacyShowError(a, "The model did not return an image. Please try again.")
             ELSE [LegacyStartOutputAnimation(a) EXCEPT
                      !.state.downloadableUrl = styledResults[1].src,
                      !.elements.downloadVisible = TRUE]
    IN  LegacySetLoading(b, FALSE, <<>>)

\* The catch and finally of the second try block (part_002 603-609) for an
\* error other than "Invalid API Key".
LegacyFinalVideoFailed(l, r) ==
    LegacySetLoading(
        [LegacyShowError(l, "Failed to generate final video, but the preview is available.")
            EXCEPT !.run[r] = Idle],
        FALSE, <<>>)

\* The second pass once styleFrames has returned (part_002 579-587).
LegacyPass2Styled(l, r) ==
    LET styledHighResFrames == l.run[r].styledResults
        a == IF Len(styledHighResFrames) # Len(l.state.capturedFrames)
             THEN LegacyShowError(l,
                      "Could not stylize all high-quality frames ("
                      \o ToString(Len(styledHighResFrames)) \o "/"
                      \o ToString(Len(l.state.capturedFrames))
                      \o " succeeded). Video will be generated with available frames.")
             ELSE l
        b == [LegacySetLoading(a, TRUE, <<"Encoding final video...">>) EXCEPT
                 !.run[r].pc = "asm",
                 !.run[r].request = Null,
                 !.run[r].asm = AsmCall("legacy", styledHighResFrames)]
    IN  IF b.run[r].asm.settled = "rejected" THEN LegacyFinalVideoFailed(b, r) ELSE b

\* The catch of the first try block (part_002 568-574) for an error other
\* than "Invalid API Key".
LegacyPreviewFailed(l, r) ==
    LegacySetLoading(
        [LegacyShowError(l, "Could not generate a preview. Please try again.")
            EXCEPT !.run[r] = Idle],
        FALSE, <<>>)

\* The first pass once styleFrames has returned, and the start of the
\* second (part_002 560-566, 579).
LegacyPass1Styled(l, r) ==
    LET styledLowResFrames == l.run[r].styledResults
    IN  IF Len(styledLowResFrames) = 0 THEN LegacyPreviewFailed(l, r)
        ELSE LET a == LegacyStartOutputAnimation(
                         [l EXCEPT !.state.stylizedFrames = styledLowResFrames])
                 b == BeginStyleFrames(a, r, "p2", a.state.capturedFrames, TRUE,
                                       "Styling high-quality frame")
             IN  IF Len(b.run[r].frames) = 0 THEN LegacyPass2Styled(b, r)
                 ELSE LegacyIssueRequest(b, r)

\* The loop head of styleFrames (part_002 449, 488): the next request, or
\* the return to the caller.
LegacyStyleLoop(l, r) ==
    LET R == l.run[r]
    IN  IF R.i <= Len(R.frames) THEN LegacyIssueRequest(l, r)
        ELSE IF R.phase = "single" THEN LegacySingleStyled(l, r)
        ELSE IF R.phase = "p1" THEN LegacyPass1Styled(l, r)
        ELSE LegacyPass2Styled(l, r)

\* The authentication branch of styleFrames (part_002 476-481) and what
\* its caller does with the throw (part_002 510-517, 568-569, 603-609).
LegacyStyleAuthFailed(l, r) ==
    LET a == [LegacyShowError(l, "API Key Invalid. Please check your settings.") EXCEPT
                 !.storage = NoKey,
                 !.elements.modalVisible = TRUE,
                 !.run[r] = Idle]
    IN  IF l.run[r].phase = "p1" THEN a ELSE LegacySetLoading(a, FALSE, <<>>)

\* The continuation of styleFrames when the service answers (part_002
\* 457-487).
LegacyOnResponse(l, r, response) ==
    LET R == l.run[r]
    IN  IF response.kind = "error" /\ IsAuthError(response.text)
        THEN LegacyStyleAuthFailed(l, r)
        ELSE LegacyStyleLoop([l EXCEPT
                 !.run[r].styledResults = PushStyledResult(@, R.frame, response),
                 !.run[r].i = @ + 1], r)

\* createLowResFrames has resolved (part_002 526-550, 559-560).
LegacyOnLowResFrames(l, r) ==
    LET lowResFrames == [j \in 1..Len(l.run[r].frames) |->
                            CanvasFrame(<<"low(">> \o SplitSecond(l.run[r].frames[j].src)
                                        \o <<")">>)]
    IN  LegacyStyleLoop(BeginStyleFrames(l, r, "p1", lowResFrames, FALSE,
                                         "Styling preview frame"), r)

\* The continuation of processVideoWithProgressivePreview when
\* createVideoFromFrames has settled (part_002 587-609).
LegacyOnVideoSettled(l, r) ==
    LET video == l.run[r].asm
    IN  IF video.settled = "rejected" THEN LegacyFinalVideoFailed(l, r)
        ELSE LegacySetLoading(
                 [l EXCEPT !.state.outputAnimationInterval = FALSE,
                           !.elements.generatedImageWrapperVisible = FALSE,
                           !.elements.placeholderVisible = FALSE,
                           !.elements.outputVideoSrc = video.outcome.url,
                           !.elements.outputVideoVisible = TRUE,
                           !.elements.downloadVisible = TRUE,
                           !.state.downloadableUrl = video.outcome.url,
                           !.run[r] = Idle],
                 FALSE, <<>>)

\* handleGenerateClick (part_002 415-435) up to the first await of the
\* path it takes (part_002 495-498, 557-559).
LegacyHandleGenerateClick(l, r) ==
    IF l.state.ai = NoKey
    THEN [LegacyShowError(l, "API Key is missing. Please configure it in settings.")
             EXCEPT !.elements.modalVisible = TRUE]
    ELSE IF Len(l.state.capturedFrames) = 0
    THEN LegacyShowError(l, "Please upload an image or extract frames first.")
    ELSE LET a == [l EXCEPT !.run[r] = [pc |-> "called", issued |-> 0]]
         IN  IF Len(a.state.capturedFrames) = 1
             THEN LegacyIssueRequest(
                     BeginStyleFrames(
                        LegacySetLoading(a, TRUE, <<"Applying artistic style...">>),
                        r, "single", a.state.capturedFrames, TRUE, "Styling image"), r)
             ELSE [BeginStyleFrames(
                      LegacySetLoading(a, TRUE, <<"Generating low-quality preview...">>),
                      r, "p1", a.state.capturedFrames, FALSE, "Styling preview frame")
                   EXCEPT !.run[r].pc = "lowres"]

\* The page after checkApiKey (part_002 89), for every build key and
\* stored key.
InitLX ==
    /\ \E envKey \in BuildKeys :
       \E storedKey \in {NoKey, GoodKey, ShortKey} :
       \E sdkThrows \in BOOLEAN :
          lx = LegacyCheckApiKey(LegacyFreshPage(envKey, storedKey, 0), envKey, sdkThrows)
    /\ fc = Off /\ cd = Off /\ sm = Off /\ asm = Off /\ bt = Off
    /\ ShellOff
    /\ ia = Off /\ RestOff

LxBecomes(l) ==
    /\ lx' = l
    /\ UNCHANGED <<fc, cd, sm, asm, bt, shellVars, ia, restVars>>

\* A user event, which the budget of events allows, leaves the page l.
LxUserEvent(l) ==
    /\ lx.clicks < MaxLegacyEvents
    /\ LxBecomes([l EXCEPT !.clicks = @ + 1])

\* A click on the save button of the key modal.
LxSaveClick ==
    /\ lx # Off
    /\ lx.elements.modalVisible
    /\ \E typed \in LegacyTyped : \E sdkThrows \in BOOLEAN :
          LxUserEvent(LegacySaveApiKey(lx, typed, sdkThrows))

\* The listener of the reset button (part_002 110-113): the stored key is
\* removed and the page is loaded again, which ends everything the old
\* page had pending.
LxResetClick ==
    /\ lx # Off
    /\ \E sdkThrows \in BOOLEAN :
          LxUserEvent(LegacyCheckApiKey(LegacyFreshPage(lx.envKey, NoKey, lx.clicks),
                                        lx.envKey, sdkThrows))

\* The user picks an image file.
LxUploadImage ==
    /\ lx # Off
    /\ \E x \in Images : LxUserEvent(LegacyHandleMediaUpload(lx, "image", x))

\* The user picks a video file.
LxUploadVideo ==
    /\ lx # Off
    /\ LxUserEvent(LegacyHandleMediaUpload(lx, "video", Null))

\* The user picks a file that is neither.
LxUploadOther ==
    /\ lx # Off
    /\ LxUserEvent(LegacyHandleMediaUpload(lx, "other", Null))

\* The file reader of an upload has ended with a string.
LxImageRead ==
    /\ lx # Off
    /\ \E x \in Images :
          /\ lx.reading[x] > 0
          /\ LxBecomes(LegacyOnImageRead(lx, x, TRUE))

\* The file reader of an upload has failed.
LxImageReadFailed ==
    /\ lx # Off
    /\ \E x \in Images :
          /\ lx.reading[x] > 0
          /\ LxBecomes(LegacyOnImageRead(lx, x, FALSE))

\* The video element has data for its current position (readyState >= 2).
LxVideoReady ==
    /\ lx # Off
    /\ lx.elements.videoPreview = "loading"
    /\ LxBecomes([lx EXCEPT !.elements.videoPreview = "ready"])

\* A click on the extract button, the slider at frameCountVal.
LxExtractClick ==
    /\ lx # Off
    /\ lx.elements.frameControlsVisible
    /\ ~lx.elements.extractDisabled
    /\ \E frameCountVal \in 1..MaxLegacyFrames :
          LxUserEvent(LegacyHandleExtractFrames(lx, frameCountVal))

\* The video element reports the end of the seek it is performing.
LxSeeked ==
    /\ lx # Off
    /\ lx.seeking
    /\ LET p == lx.seeks[Len(lx.seeks)]
       IN  LxBecomes(LegacyExtractEnd(
               LegacyDispatchSeeked([lx EXCEPT !.seeking = FALSE], p, Len(lx.listeners))))

\* The user picks another entry of the style selector.
LxChangeStyle ==
    /\ lx # Off
    /\ \E style \in Styles \ {lx.elements.styleSelect} :
          LxUserEvent([lx EXCEPT !.elements.styleSelect = style])

\* A click on the generate button.
LxGenerateClick ==
    /\ lx # Off
    /\ ~lx.elements.generateDisabled
    /\ \E r \in RunIds :
          /\ lx.run[r].pc = "idle"
          /\ \A q \in RunIds : lx.run[q].pc = "idle" => r = "r1" \/ q = "r2"
          /\ LxUserEvent(LegacyHandleGenerateClick(lx, r))

\* generateContent settles for the outstanding request of a run.
LxApiResponse ==
    /\ lx # Off
    /\ \E r \in RunIds :
          /\ lx.run[r].pc = "api"
          /\ \E response \in Responses(lx.run[r].request) :
                LxBecomes(LegacyOnResponse(lx, r, response))

\* Every image of createLowResFrames has loaded.
LxLowResFramesReady ==
    /\ lx # Off
    /\ \E r \in RunIds :
          /\ lx.run[r].pc = "lowres"
          /\ LxBecomes(LegacyOnLowResFrames(lx, r))

\* An image of createLowResFrames has failed to load.
LxLowResFramesFailed ==
    /\ lx # Off
    /\ \E r \in RunIds :
          /\ lx.run[r].pc = "lowres"
          /\ LxBecomes(LegacyPreviewFailed(lx, r))

\* Run r's createVideoFromFrames goes to a, and the run goes on if that
\* settled it.
LxVideoStep(r, a) ==
    LET l == [lx EXCEPT !.run[r].asm = a]
    IN  LxBecomes(IF a.settled # "pending" THEN LegacyOnVideoSettled(l, r) ELSE l)

LxVideoFirstLoaded ==
    lx # Off /\ \E r \in RunIds :
        /\ lx.run[r].pc = "asm" /\ lx.run[r].asm.pc = "first"
        /\ \E host \in Hosts :
              LxVideoStep(r, AsmOnFirstLoad(lx.run[r].asm, host.supported, host.throws))

LxVideoFirstFailed ==
    lx # Off /\ \E r \in RunIds :
        /\ lx.run[r].pc = "asm" /\ lx.run[r].asm.pc = "first"
        /\ LxVideoStep(r, AsmOnFirstError(lx.run[r].asm))

LxVideoImageLoaded ==
    lx # Off /\ \E r \in RunIds :
        /\ lx.run[r].pc = "asm" /\ lx.run[r].asm.pc = "decode"
        /\ LxVideoStep(r, AsmOnImageLoad(lx.run[r].asm))

LxVideoImageFailed ==
    lx # Off /\ \E r \in RunIds :
        /\ lx.run[r].pc = "asm" /\ lx.run[r].asm.pc = "decode"
        /\ LxVideoStep(r, AsmOnImageError(lx.run[r].asm))

LxVideoRecorderStopped ==
    lx # Off /\ \E r \in RunIds :
        /\ lx.run[r].pc = "asm" /\ lx.run[r].asm.pc = "stopping"
        /\ LxVideoStep(r, AsmOnStop(lx.run[r].asm))

LxVideoRecorderErrored ==
    lx # Off /\ \E r \in RunIds :
        /\ lx.run[r].pc = "asm" /\ lx.run[r].asm.pc \in {"decode", "stopping"}
        /\ LxVideoStep(r, AsmOnRecorderError(lx.run[r].asm))

NextLX ==
    \/ LxSaveClick \/ LxResetClick \/ LxUploadImage \/ LxUploadVideo \/ LxUploadOther
    \/ LxImageRead \/ LxImageReadFailed \/ LxVideoReady \/ LxExtractClick \/ LxSeeked
    \/ LxChangeStyle \/ LxGenerateClick \/ LxApiResponse
    \/ LxLowResFramesReady \/ LxLowResFramesFailed
    \/ LxVideoFirstLoaded \/ LxVideoFirstFailed \/ LxVideoImageLoaded
    \/ LxVideoImageFailed \/ LxVideoRecorderStopped \/ LxVideoRecorderErrored

InitApp == InitShell \/ InitBT \/ InitLX
NextApp == NextShell \/ NextBT \/ NextLX
SpecApp == InitApp /\ [][NextApp]_vars

(***************************************************************************)
(* PROPERTIES OF THE STYLING RUNS                                          *)
(***************************************************************************)
\* This step is the handler that leaves the world w.
StepIs(w) ==
    /\ state' = w.state
    /\ elements' = w.elements
    /\ run' = w.run
    /\ storage' = w.storage

\* The data URL of the styled image the service returns for a frame.
StyledSrc(frame, prompt) ==
    LET part == StyledPart(StyleRequest(frame, prompt))
    IN  createDataUrl(part.mimeType, part.data)

AuthTexts == {t \in ErrorTexts : "403" \in Range(t) \/ "API_KEY_INVALID" \in Range(t)}
AuthResponses == {[kind |-> "error", text |-> t] : t \in AuthTexts}
SoftFailures ==
    {[kind |-> "noimage"]} \cup {[kind |-> "error", text |-> t] : t \in ErrorTexts \ AuthTexts}

AuthMessage == <<"Error: ", "API Key Invalid. Please check your settings.">>
FinalVideoMessage ==
    <<"Error: ", "Failed to generate final video, but the preview is available.">>
PreviewMessage == <<"Error: ", "Could not generate a preview. Please try again.">>

\* Run r is at the response to the request for the last frame of its array.
AtLastFrame(r) == run[r].pc = "api" /\ run[r].i = Len(run[r].frames)

\* What styleFrames hands to its caller in the step that ends run r's
\* current call: the caller stores it in state.stylizedFrames (single
\* image, first pass) or passes it to createVideoFromFrames (second pass).
ReturnedFrames(r) ==
    IF run[r].phase = "p2" THEN run'[r].asm.frames ELSE state'.stylizedFrames

\* Position by position, the styled image of the frame or the frame's own
\* src.
Positional(results, frames, prompt) ==
    /\ Len(results) = Len(frames)
    /\ \A j \in 1..Len(frames) :
          results[j].src \in {StyledSrc(frames[j], prompt), frames[j].src}

\* C1: for an input sequence of n frames and outcomes without an
\* authentication failure, styleFrames and styleFramesBatch return exactly
\* n frames, the one at position i being the styled result of input frame
\* i or input frame i itself.  The input is the sequence the styler was
\* called with.
C1_BatchKeepsEveryFrame ==
    /\ [](bt # Off /\ bt.pc = "returned" =>
            /\ Len(bt.out) = Len(bt.frames)
            /\ \A j \in 1..Len(bt.frames) :
                  bt.out[j] \in {bt.frames[j],
                                 createFrame(StyledPart(StyleRequest(bt.frames[j], bt.prompt)).data,
                                             StyledPart(StyleRequest(bt.frames[j], bt.prompt)).mimeType)})
    /\ [][state # Off =>
            \A r \in RunIds :
                AtLastFrame(r) =>
                    \A response \in Responses(run[r].request) \ AuthResponses :
                        StepIs(OnResponse(World, r, response)) =>
                            Positional(ReturnedFrames(r), run[r].given, run[r].prompt)]_vars

\* A call of styleFrames that was handed one frame has a result for it and
\* waits for the answer to a second request: the array it reads has grown.
C1_Witness ==
    /\ state # Off
    /\ \E r \in RunIds :
          /\ run[r].pc = "api"
          /\ Len(run[r].given) = 1
          /\ Len(run[r].styledResults) = 1
          /\ run[r].i = 2

\* C2: when the request for a frame fails with an authentication error,
\* styleFrames throws: no request is issued for a later frame, and
\* state.stylizedFrames is not assigned from that batch.
C2_AuthFailureAborts ==
    [][state # Off =>
        \A r \in RunIds :
            run[r].pc = "api" =>
                \A response \in AuthResponses :
                    StepIs(OnResponse(World, r, response)) =>
                        /\ run'[r] = Idle
                        /\ state'.stylizedFrames = state.stylizedFrames
                        /\ state'.downloadableUrl = state.downloadableUrl
                        /\ storage' = NoKey
                        /\ elements'.modalVisible]_vars

\* The second pass was stopped by an authentication error: the key is
\* gone, the modal is up, and the preview frames are still the stored ones.
C2_Witness ==
    /\ state # Off
    /\ \A r \in RunIds : run[r] = Idle
    /\ elements.placeholderText = AuthMessage
    /\ elements.modalVisible
    /\ storage = NoKey
    /\ Len(state.stylizedFrames) = 2
    /\ ~elements.loaderVisible

\* C3 (as stated): if every first-pass stylization fails without an
\* authentication error, the operation ends with the preview error and the
\* second pass never starts.
C3_NoPreviewNoSecondPass ==
    [][state # Off =>
        \A r \in RunIds :
            /\ AtLastFrame(r)
            /\ run[r].phase = "p1"
            /\ \A j \in 1..(run[r].i - 1) :
                  run[r].styledResults[j].src = run[r].frames[j].src
            => \A response \in SoftFailures :
                  StepIs(OnResponse(World, r, response)) =>
                      /\ run'[r] = Idle
                      /\ elements'.placeholderText = PreviewMessage]_vars

\* The second pass has a request outstanding although the stored preview
\* is the unstyled low-resolution frames.
C3_Witness ==
    /\ state # Off
    /\ \E r \in RunIds :
          /\ run[r].pc = "api"
          /\ run[r].phase = "p2"
          /\ Len(state.stylizedFrames) = 2
          /\ \A j \in 1..2 :
                state.stylizedFrames[j].src =
                    CanvasJpeg(<<"low(">> \o SplitSecond(state.capturedFrames[j].src) \o <<")">>)

\* C4 (as stated): when the preview is on screen and the second pass or
\* the assembly fails without an authentication error, the preview is
\* still on screen once the failure has been reported.
C4_PreviewStaysVisible ==
    [][state # Off =>
        \A r \in RunIds :
            /\ run[r].pc \in {"api", "asm"}
            /\ run[r].phase = "p2"
            /\ elements.generatedImageWrapperVisible
            /\ run'[r] = Idle
            /\ elements'.placeholderText = FinalVideoMessage
            => elements'.generatedImageWrapperVisible]_vars

\* The failure of the final video has been reported over a stored preview
\* that is no longer on screen.
C4_Witness ==
    /\ state # Off
    /\ \A r \in RunIds : run[r] = Idle
    /\ elements.placeholderText = FinalVideoMessage
    /\ Len(state.stylizedFrames) = 2
    /\ state.outputAnimation
    /\ ~elements.generatedImageWrapperVisible

\* Run r is a generateSingleImage call waiting for the service.
SingleImageRun(r) == run[r].pc = "api" /\ run[r].phase = "single"

\* C8: handleGenerate with one captured frame takes the single-image path
\* and never enters the video flow; when its request is answered (by an
\* image, by no image or by an error that is not an authentication
\* failure) the run ends: one styling request was issued,
\* state.stylizedFrames holds exactly one frame and its src is the
\* downloadable URL.
C8_OneRequestOneFrame ==
    [][state # Off =>
        \A r \in RunIds :
            SingleImageRun(r) =>
                /\ run'[r] # Idle => run'[r].pc = "api" /\ run'[r].phase = "single"
                /\ \A response \in Responses(run[r].request) \ AuthResponses :
                      StepIs(OnResponse(World, r, response)) =>
                          /\ run'[r] = Idle
                          /\ run[r].issued = 1
                          /\ Len(state'.stylizedFrames) = 1
                          /\ state'.downloadableUrl = state'.stylizedFrames[1].src]_vars

\* A single-image run at its second request: it was handed one frame, and
\* extraction has appended to the array it reads.
C8_Witness ==
    /\ state # Off
    /\ \E r \in RunIds :
          /\ SingleImageRun(r)
          /\ Len(run[r].given) = 1
          /\ run[r].issued = 2

\* C10 (as stated): at most one styling request is outstanding at any
\* time.
C10_OneRequestOutstanding ==
    state # Off => Cardinality({r \in RunIds : run[r].pc = "api"}) <= 1

\* Two generate calls each wait for the service.
C10_Witness ==
    /\ state # Off
    /\ \A r \in RunIds : run[r].pc = "api"

(***************************************************************************)
(* PROPERTIES OF THE ASSEMBLER                                             *)
(***************************************************************************)
\* C7: once the recorder has started, a frame that fails to decode never
\* rejects the assembly: the frames are drawn in input order, a black one
\* for each failure, all n of them by the end, and the assembly resolves
\* with a video unless the recorder itself reports an error.
C7_DecodeFailureDrawsBlack ==
    asm # Off /\ asm.started =>
        /\ Len(asm.drawn) <= Len(asm.frames)
        /\ \A j \in 1..Len(asm.drawn) :
              ~asm.drawn[j].black => asm.drawn[j].src = asm.frames[j].src
        /\ asm.pc = "decode" => Len(asm.drawn) = asm.k - 1
        /\ asm.pc = "wait" => Len(asm.drawn) = asm.k
        /\ asm.pc \in {"stopping", "end"} => Len(asm.drawn) = Len(asm.frames)
        /\ asm.settled = "rejected" => asm.outcome = [error |-> ErrRecorderEvent]
        /\ asm.pc = "end" /\ asm.settled # "rejected" =>
              /\ asm.settled = "resolved"
              /\ asm.outcome.extension = asm.codec.extension
              /\ asm.stops = 1

\* Three frames, the second undecodable: three draws, one black, a video.
C7_Witness ==
    /\ asm # Off
    /\ asm.pc = "end"
    /\ asm.settled = "resolved"
    /\ Len(asm.frames) = 3
    /\ Len(asm.drawn) = 3
    /\ ~asm.drawn[1].black /\ asm.drawn[2].black /\ ~asm.drawn[3].black

\* The ranked options the host reports as supported.
HostRanks(supported) ==
    {k \in DOMAIN CodecOptions : CodecOptions[k].mimeType \in supported}

\* C6 (as stated): the codec selected is the highest-ranked option the
\* host reports as supported, whatever the order of the list; only
\* video/mp4 supported selects {video/mp4, mp4}; none supported gives null
\* and the assembly is rejected for want of a codec.
C6_HighestRankedSupported ==
    /\ cd # Off => CodecRankingCorrect
    /\ asm # Off /\ asm.pc # "first" /\ Len(asm.frames) > 0
          /\ asm.outcome # [error |-> ErrFirstFrame(asm.variant)] =>
          IF HostRanks(asm.supported) = {}
          THEN /\ ~asm.started
               /\ asm.settled = "rejected"
               /\ asm.outcome \in {[error |-> ErrNoCodec],
                                   [error |-> ErrRecorderInit(asm.variant)]}
          ELSE asm.started =>
                  asm.codec = CodecOptions[Min(HostRanks(asm.supported))]

\* C6 (amended): selectBestCodec returns the highest-ranked option whose
\* type is listed, whatever the order of the list, {video/mp4, mp4} when
\* only video/mp4 is listed and null when none is; with no type supported
\* either assembler rejects without recording.  The effects-layer assembler
\* records with the highest-ranked supported option or, if its recorder
\* cannot be constructed, rejects; the shell's assembler records with the
\* highest-ranked supported option whose recorder can be constructed, and
\* rejects only if there is none.
C6_HighestRankedUsable ==
    /\ cd # Off => CodecRankingCorrect
    /\ asm # Off /\ asm.pc # "first" /\ Len(asm.frames) > 0
          /\ asm.outcome # [error |-> ErrFirstFrame(asm.variant)] =>
          LET ranks == HostRanks(asm.supported)
              usable == {k \in ranks : CodecOptions[k].mimeType \notin asm.throws}
          IN  IF ranks = {}
              THEN /\ ~asm.started
                   /\ asm.settled = "rejected"
                   /\ asm.outcome = [error |-> IF asm.variant = "io" THEN ErrNoCodec
                                               ELSE ErrRecorderInit(asm.variant)]
              ELSE IF asm.variant = "io"
              THEN IF Min(ranks) \in usable
                   THEN asm.started /\ asm.codec = CodecOptions[Min(ranks)]
                   ELSE /\ ~asm.started
                        /\ asm.outcome = [error |-> ErrRecorderInit(asm.variant)]
              ELSE IF usable = {}
                   THEN /\ ~asm.started
                        /\ asm.outcome = [error |-> ErrRecorderInit(asm.variant)]
                   ELSE asm.started /\ asm.codec = CodecOptions[Min(usable)]

\* The shell's assembler recording mp4 on a host that supports nothing
\* else, and selectBestCodec picking mp4 from a list led by an unranked
\* type.
C6_Witness ==
    \/ /\ asm # Off
       /\ asm.variant = "shell"
       /\ asm.supported = {"video/mp4"}
       /\ asm.started
       /\ asm.codec = [mimeType |-> "video/mp4", extension |-> "mp4"]
    \/ /\ cd # Off
       /\ cd.pc = "selected"
       /\ cd.supportedTypes = <<"video/x-matroska", "video/mp4">>
       /\ cd.codec = [mimeType |-> "video/mp4", extension |-> "mp4"]

InitCodecSelection == InitCD \/ InitASM
NextCodecSelection == NextCD \/ NextASM
SpecCodecSelection == InitCodecSelection /\ [][NextCodecSelection]_vars

\* ------------------------------------------------------------------
\* Authentication failures of the shell (effects.js 899-910, 757-808)
\* ------------------------------------------------------------------

\* The phases in which styleFrames is called: the single image, the first
\* (preview) pass and the second (full resolution) pass.
Phases == {"single", "p1", "p2"}

\* C11: an authentication error on a request of the single-image path, of
\* the first pass or of the second pass ends the whole generation: the run
\* is over with no later pass and no assembly, the key 'gemini_api_key' is
\* removed from localStorage and the API-key modal is shown.
C11_AuthErrorAbortsGeneration ==
    [][state # Off =>
        \A r \in RunIds : \A phase \in Phases :
            (run[r].pc = "api" /\ run[r].phase = phase) =>
                \A response \in AuthResponses :
                    StepIs(OnResponse(World, r, response)) =>
                        /\ run'[r] = Idle
                        /\ \A q \in RunIds \ {r} : run'[q] = run[q]
                        /\ storage' = NoKey
                        /\ elements'.modalVisible
                        /\ elements'.placeholderText = AuthMessage
                        /\ state' = state]_vars

\* A video generation stopped in its first pass by an authentication
\* error: nothing was styled, the key is gone and the modal is up.
C11_Witness ==
    /\ state # Off
    /\ \A r \in RunIds : run[r] = Idle
    /\ state.mediaType = "video"
    /\ Len(state.capturedFrames) > 0
    /\ state.stylizedFrames = <<>>
    /\ elements.placeholderText = AuthMessage
    /\ elements.modalVisible
    /\ storage = NoKey

\* ------------------------------------------------------------------
\* Partial success of the second pass (effects.js 778-799, 893-898)
\* ------------------------------------------------------------------

PartialMessage == <<"Error: ", "Could not stylize all frames">>

\* The status line shows the partial-stylization warning.
PartialWarningShown == elements.placeholderText = PartialMessage

\* Some position of the results holds the frame's own src.
FellBack(results, frames) ==
    \E j \in 1..Len(results) : j <= Len(frames) /\ results[j].src = frames[j].src

\* C12 (as stated): when the second pass ends without an authentication
\* error and with fewer frames styled than it was given, the rest having
\* fallen back to the originals, the operation goes on: the mixed sequence
\* is handed to the assembler, and a warning is shown to the user.
C12_PartialSecondPassWarns ==
    [][state # Off =>
        \A r \in RunIds :
            (AtLastFrame(r) /\ run[r].phase = "p2") =>
                \A response \in Responses(run[r].request) \ AuthResponses :
                    LET results == PushStyledResult(run[r].styledResults,
                                                    run[r].frame, response)
                    IN  (StepIs(OnResponse(World, r, response))
                         /\ FellBack(results, run[r].frames)) =>
                            /\ run'[r].pc = "asm"
                            /\ run'[r].asm.frames = results
                            /\ PartialWarningShown']_vars

\* The assembler is working on a second-pass result of two frames of which
\* the second is the original, and the status line reads "Encoding final
\* video..." with no warning.
C12_Witness ==
    /\ state # Off
    /\ \E r \in RunIds :
          /\ run[r].pc = "asm"
          /\ run[r].phase = "p2"
          /\ Len(run[r].frames) = 2
          /\ run[r].asm.frames[1].src = StyledSrc(run[r].frames[1], run[r].prompt)
          /\ run[r].asm.frames[2].src = run[r].frames[2].src
          /\ elements.placeholderText = <<"Encoding final video...">>
          /\ elements.loaderVisible

\* ------------------------------------------------------------------
\* The shape of frames (part_000 240-253, effects.js 854-872, 893-910)
\* ------------------------------------------------------------------

\* A frame with the three fields of createFrame, src being the data URL of
\* the other two.
WellFormedFrame(frame) ==
    /\ DOMAIN frame = {"data", "mimeType", "src"}
    /\ frame.src = createDataUrl(frame.mimeType, frame.data)

AllWellFormed(frames) == \A j \in 1..Len(frames) : WellFormedFrame(frames[j])

\* C13 (as stated): every frame in state.capturedFrames, in
\* state.stylizedFrames, in the arrays styleFrames is given and in the
\* array handed to the assembler, and every frame styleFramesBatch
\* returns, has the fields data, mimeType and src with
\* src = 'data:' + mimeType + ';base64,' + data.
C13_FramesWellFormed ==
    /\ state # Off =>
          /\ AllWellFormed(state.capturedFrames)
          /\ AllWellFormed(state.stylizedFrames)
          /\ \A r \in RunIds :
                /\ run[r].pc = "api" => AllWellFormed(run[r].frames)
                /\ run[r].pc = "asm" => AllWellFormed(run[r].asm.frames)
    /\ bt # Off => \A j \in 1..Len(bt.results) : WellFormedFrame(bt.results[j].frame)

\* A styled single image is stored: the stored frame has the field src and
\* no other, while the frame it was made from has all three.
C13_Witness ==
    /\ state # Off
    /\ state.mediaType = "image"
    /\ Len(state.capturedFrames) = 1
    /\ WellFormedFrame(state.capturedFrames[1])
    /\ Len(state.stylizedFrames) = 1
    /\ DOMAIN state.stylizedFrames[1] = {"src"}
    /\ state.stylizedFrames[1].src =
          StyledSrc(state.capturedFrames[1], createStylePrompt(elements.styleSelect))

(***************************************************************************)
(* THE IMAGE-ONLY APPLICATION (src/src/index.js).                          *)
(*                                                                         *)
(* ia holds the module's variables (ai, apiKey, currentImage,              *)
(* stylizedImage), the localStorage item, the build-time key, the DOM      *)
(* state its handlers write, and the requests that are pending.  The       *)
(* GoogleGenAI constructor and the service are the environment: the set    *)
(* of keys the constructor throws on is fixed when the page is opened.     *)
(***************************************************************************)
MaxImgPending == 1

ImgUserKey == <<"user-key">>
ImgDefaultKey == <<"default-key">>
ImgKeys == {ImgUserKey, ImgDefaultKey}

\* What the user may have typed into the key input.
ImgTyped == {<<>>, <<" ">>, ImgUserKey, <<" ">> \o ImgUserKey \o <<" ">>}

ImgClient(key) == [apiKey |-> key]

\* The pictures the user can upload or take with the camera.
ImgPictures == {"A", "B"}

ImgErrorTexts == {<<"API key", " not valid">>, <<"quota", " exceeded">>,
                  <<"Failed to fetch">>}

\* index.js 92-96
showApiKeyModal(a) == [a EXCEPT !.modalVisible = TRUE, !.errorVisible = FALSE]

\* index.js 98-100
hideApiKeyModal(a) == [a EXCEPT !.modalVisible = FALSE]

\* index.js 130-133
showApiKeyError(a, message) == [a EXCEPT !.errorText = message, !.errorVisible = TRUE]

\* index.js 316-325
setLoading(a, isLoading) ==
    [a EXCEPT !.loaderVisible = isLoading, !.generateDisabled = isLoading]

\* A variant of checkApiKey that takes the build-time key whenever there is
\* one.
ImgCheckApiKeyDefaultFirst(a) ==
    LET key == IF a.defaultKey # NoKey THEN a.defaultKey ELSE a.storedKey
        b == [a EXCEPT !.apiKey = key]
    IN  IF key # NoKey
        THEN IF key \in b.throwing
             THEN showApiKeyModal(b)
             ELSE [b EXCEPT !.ai = ImgClient(key), !.modalVisible = FALSE]
        ELSE showApiKeyModal(b)

\* checkApiKey (index.js 69-90).
ImgCheckApiKey(a) ==
    LET stored == a.storedKey
        key == IF stored = NoKey /\ a.defaultKey # NoKey THEN a.defaultKey ELSE stored
        b == [a EXCEPT !.apiKey = key]
    IN  IF key # NoKey
        THEN IF key \in b.throwing
             THEN showApiKeyModal(b)
             ELSE [b EXCEPT !.ai = ImgClient(key), !.modalVisible = FALSE]
        ELSE showApiKeyModal(b)

\* resetApiKey (index.js 135-140).
ImgResetApiKey(a) ==
    showApiKeyModal([a EXCEPT !.storedKey = NoKey, !.apiKey = NoKey, !.ai = Null])

\* skipApiKeyModal (index.js 142-153); a throw of the constructor leaves
\* the handler after the assignment to apiKey.
ImgSkipApiKeyModal(a) ==
    IF a.defaultKey # NoKey
    THEN LET b == [a EXCEPT !.apiKey = a.defaultKey]
         IN  IF a.defaultKey \in a.throwing THEN b
             ELSE hideApiKeyModal([b EXCEPT !.ai = ImgClient(a.defaultKey)])
    ELSE showApiKeyError(a, "No hay API key por defecto")

\* saveApiKey up to its await (index.js 102-114); sdkThrows says whether
\* the synchronous part of the try block throws.
ImgSaveApiKey(a, typed, sdkThrows) ==
    LET key == Trim(typed)
    IN  IF key = NoKey THEN showApiKeyError(a, "Por favor ingresa una API key")
        ELSE IF key \in a.throwing \/ sdkThrows
        THEN setLoading(showApiKeyError(setLoading(a, TRUE), "API key invalida"), FALSE)
        ELSE [setLoading(a, TRUE) EXCEPT !.verifying = @ \cup {key}]

\* The continuation of saveApiKey (index.js 116-127).
ImgOnVerified(a, key, ok) ==
    LET b == [a EXCEPT !.verifying = @ \ {key}]
    IN  IF ok
        THEN setLoading(hideApiKeyModal([b EXCEPT !.apiKey = key, !.ai = ImgClient(key),
                                                  !.storedKey = key]), FALSE)
        ELSE setLoading(showApiKeyError(b, "API key invalida"), FALSE)

\* loadImage (index.js 186-197).
ImgLoadImage(a, src) ==
    [a EXCEPT !.currentImage = src, !.generateDisabled = FALSE,
              !.generatedVisible = FALSE, !.downloadVisible = FALSE,
              !.stylizedImage = NoUrl]

\* The catch block of applyStyle (index.js 288-306).
ImgStyleFailed(a, text) ==
    setLoading(IF "API key" \in Range(text) THEN ImgResetApiKey(a) ELSE a, FALSE)

\* applyStyle up to its await (index.js 234-261).
ImgApplyStyle(a, sdkThrows) ==
    IF a.currentImage = NoUrl THEN a
    ELSE IF a.ai = Null THEN showApiKeyModal(a)
    ELSE IF sdkThrows THEN ImgStyleFailed(setLoading(a, TRUE), <<"TypeError">>)
    ELSE [setLoading(a, TRUE) EXCEPT !.styling = Append(@, SplitSecond(a.currentImage))]

\* The continuation of applyStyle (index.js 263-306).
ImgOnStyleResponse(a, i, response) ==
    LET b == [a EXCEPT !.styling = SubSeq(@, 1, i - 1) \o SubSeq(@, i + 1, Len(@))]
    IN  IF response.kind = "image"
        THEN setLoading([b EXCEPT !.stylizedImage =
                                     createDataUrl(response.inlineData.mimeType,
                                                   response.inlineData.data),
                                  !.generatedVisible = TRUE,
                                  !.downloadVisible = TRUE], FALSE)
        ELSE IF response.kind = "noimage"
        THEN ImgStyleFailed(b, <<"No se recibio imagen de Gemini">>)
        ELSE ImgStyleFailed(b, response.text)

ImgResponses(base64Data) ==
    {[kind |-> "image", inlineData |-> [mimeType |-> <<"image/png">>,
                                        data |-> <<"styled(">> \o base64Data \o <<")">>]],
     [kind |-> "noimage"]}
    \cup {[kind |-> "error", text |-> t] : t \in ImgErrorTexts}

InitIA ==
    /\ \E defaultKey \in {NoKey, ImgDefaultKey} :
       \E storedKey \in {NoKey, ImgUserKey} :
       \E throwing \in SUBSET ImgKeys :
       \E modalVisible \in BOOLEAN :
       \E generateDisabled \in BOOLEAN :
          ia = [pc |-> "unloaded", defaultKey |-> defaultKey, storedKey |-> storedKey,
                throwing |-> throwing, apiKey |-> NoKey, ai |-> Null,
                modalVisible |-> modalVisible, errorVisible |-> FALSE,
                errorText |-> "", loaderVisible |-> FALSE,
                generateDisabled |-> generateDisabled,
                currentImage |-> NoUrl, stylizedImage |-> NoUrl,
                generatedVisible |-> FALSE, downloadVisible |-> FALSE,
                verifying |-> {}, styling |-> <<>>]
    /\ fc = Off /\ cd = Off /\ sm = Off /\ asm = Off /\ bt = Off
    /\ ShellOff
    /\ lx = Off /\ RestOff

IaBecomes(a) ==
    /\ ia' = a
    /\ UNCHANGED <<fc, cd, sm, asm, bt, shellVars, lx, restVars>>

\* The load event of the window (index.js 64-66).
ImgPageLoaded ==
    /\ ia # Off /\ ia.pc = "unloaded"
    /\ IaBecomes([ImgCheckApiKey(ia) EXCEPT !.pc = "ready"])

ImgSaveClick ==
    /\ ia # Off
    /\ Cardinality(ia.verifying) < MaxImgPending
    /\ \E typed \in ImgTyped : \E sdkThrows \in BOOLEAN :
          IaBecomes(ImgSaveApiKey(ia, typed, sdkThrows))

ImgVerified ==
    /\ ia # Off
    /\ \E key \in ia.verifying : \E ok \in BOOLEAN :
          IaBecomes(ImgOnVerified(ia, key, ok))

ImgResetClick ==
    /\ ia # Off
    /\ IaBecomes(ImgResetApiKey(ia))

ImgSkipClick ==
    /\ ia # Off
    /\ IaBecomes(ImgSkipApiKeyModal(ia))

\* The listeners are registered when the script is run (index.js 155-169),
\* before the load event: every handler can run on a page that has not
\* called checkApiKey yet.
\* The file read of handleMediaUpload has finished (index.js 170-184), or
\* a photo was taken (index.js 218-229).
ImgImageLoaded ==
    /\ ia # Off
    /\ \E picture \in ImgPictures :
          IaBecomes(ImgLoadImage(ia, createDataUrl(<<"image/jpeg">>, <<picture>>)))

ImgGenerateClick ==
    /\ ia # Off
    /\ ~ia.generateDisabled
    /\ Len(ia.styling) < MaxImgPending
    /\ \E sdkThrows \in BOOLEAN : IaBecomes(ImgApplyStyle(ia, sdkThrows))

ImgStyleAnswered ==
    /\ ia # Off
    /\ \E i \in 1..Len(ia.styling) : \E response \in ImgResponses(ia.styling[i]) :
          IaBecomes(ImgOnStyleResponse(ia, i, response))

NextIA ==
    \/ ImgPageLoaded
    \/ ImgSaveClick
    \/ ImgVerified
    \/ ImgResetClick
    \/ ImgSkipClick
    \/ ImgImageLoaded
    \/ ImgGenerateClick
    \/ ImgStyleAnswered

SpecImageApp == InitIA /\ [][NextIA]_vars

\* The key checkApiKey goes by: the stored one if there is one, else the
\* build-time one, else none.
ImgKeyOnLoad == IF ia.storedKey # NoKey THEN ia.storedKey ELSE ia.defaultKey

\* C14: when the page of the image application is loaded, a stored key is
\* the one the client is built with, the build-time key is used when
\* nothing is stored, in both cases the modal is hidden by the load itself,
\* and the modal is shown exactly when there is neither key or the
\* constructor of the client throws.
C14_ModalOptionalOnLoad ==
    [][(ia # Off /\ ia.pc = "unloaded" /\ ia'.pc = "ready") =>
          /\ (ia.storedKey = NoKey /\ ia.defaultKey # NoKey
              /\ ia.defaultKey \notin ia.throwing) =>
                 (ia'.ai = ImgClient(ia.defaultKey) /\ ~ia'.modalVisible)
          /\ (ia.storedKey # NoKey /\ ia.storedKey \notin ia.throwing) =>
                 (ia'.ai = ImgClient(ia.storedKey) /\ ~ia'.modalVisible)
          /\ ia'.modalVisible <=> (ImgKeyOnLoad = NoKey \/ ImgKeyOnLoad \in ia.throwing)
          /\ ia'.storedKey = ia.storedKey]_vars

\* The page was opened with the modal up, a build-time key and nothing
\* stored: after the load the client holds the build-time key, the modal
\* is hidden, and nothing has been stored.
C14_Witness ==
    /\ ia # Off
    /\ ia.pc = "ready"
    /\ ia.storedKey = NoKey
    /\ ia.defaultKey = ImgDefaultKey
    /\ ia.ai = ImgClient(ImgDefaultKey)
    /\ ia.apiKey = ImgDefaultKey
    /\ ~ia.modalVisible
    /\ ~ia.errorVisible
    /\ ia.currentImage = NoUrl

\* ------------------------------------------------------------------
\* Requests after an authentication failure (effects.js 899-910,
\* 710-729, 482-520)
\* ------------------------------------------------------------------

\* The state an authentication failure leaves until a key is saved through
\* the modal: the client object still exists, the stored key is gone, the
\* modal is up.
AwaitingCredential == state.ai # NoKey /\ storage = NoKey /\ elements.modalVisible

\* Run r sends a styling request in this step.
RequestSent(r) ==
    /\ run'[r].pc = "api"
    /\ run[r].pc = "api" => run'[r].issued > run[r].issued

\* C15 (as stated): after a generation was stopped by an authentication
\* error, no styling request is sent until a key has been saved through
\* the modal.
C15_NoRequestUntilNewKey ==
    [][(state # Off /\ AwaitingCredential) => \A r \in RunIds : ~RequestSent(r)]_vars

\* After the authentication failure of a single-image generation the user
\* clicked Generate again: the third user event of the session has a
\* request outstanding, with the key still removed and the modal still up.
C15_Witness ==
    /\ state # Off
    /\ AwaitingCredential
    /\ clicks = 3
    /\ state.mediaType = "image"
    /\ run["r1"].pc = "api" /\ run["r1"].issued = 1
    /\ run["r2"] = Idle

\* ------------------------------------------------------------------
\* Order of frame extraction (effects.js 674-693, part_002 349-372)
\* ------------------------------------------------------------------

\* The frames of the pictures at the first n sample times, in order.
FramesInTimeOrder(n) == [j \in 1..n |-> CanvasFrame(<<"video@", ToString(j - 1)>>)]

\* The extraction of effects.js: while it waits for seek i, exactly the
\* frames of the i earlier times have been captured.
ShellExtractionSequential ==
    ex.seek # <<>> =>
        \A k \in DOMAIN ex.calls : state.capturedFrames = FramesInTimeOrder(ex.calls[k].i)

\* The extraction of part_002: at most one seek is ahead of the captures.
LegacyExtractionSequential ==
    Len(lx.seeks) <= Len(lx.state.capturedFrames) + 1

\* The call of part_002 that ends has captured the frameCount pictures in
\* order.
LegacyExtractionComplete ==
    (lx.pc = "waiting" /\ lx'.pc = "done") =>
        lx'.state.capturedFrames = FramesInTimeOrder(lx.frameCount)

\* C16 (as stated): in both implementations of handleExtractFrames the
\* seek to the next time is issued only after the frame of the previous
\* one has been captured, each completed seek captures one frame, and the
\* call ends with frameCount frames, frame i being the picture at time i.
C16_ExtractionSequential ==
    /\ [](state # Off => ShellExtractionSequential)
    /\ [](lx # Off => LegacyExtractionSequential)
    /\ [][lx # Off => LegacyExtractionComplete]_vars

\* A legacy extraction of two frames has ended: both captured frames are
\* the picture at the second time.
C16_Witness ==
    /\ lx # Off
    /\ lx.pc = "done"
    /\ lx.frameCount = 2
    /\ lx.state.capturedFrames = <<CanvasFrame(<<"video@", "1">>), CanvasFrame(<<"video@", "1">>)>>

\* ------------------------------------------------------------------
\* Authentication errors in styleFramesBatch (effects.js 123-142, 93-113)
\* ------------------------------------------------------------------

\* C17 (as stated): when the request for a frame of styleFramesBatch fails
\* with an authentication error, the batch is over: no request is made for
\* a later frame and no result array is returned.
C17_BatchAuthErrorPropagates ==
    [][(bt # Off /\ bt.pc = "await") =>
          \A response \in AuthResponses :
              bt' = BatchOnResponse(bt, response) =>
                  /\ bt'.pc # "returned"
                  /\ bt'.i = bt.i
                  /\ bt'.results = bt.results]_vars

\* A batch of two frames whose first request failed and whose second
\* returned an image has returned both: the original first frame and the
\* styled second one.
C17_Witness ==
    /\ bt # Off
    /\ bt.pc = "returned"
    /\ Len(bt.frames) = 2
    /\ bt.outcomes = <<"error", "image">>
    /\ bt.out = <<bt.frames[1],
                  generateStylizedFrame(
                     [kind |-> "image",
                      inlineData |-> StyledPart(StyleRequest(bt.frames[2], bt.prompt))])>>

\* ------------------------------------------------------------------
\* The prompt of the two passes (effects.js 874-877, 757-781)
\* ------------------------------------------------------------------

\* C18 (as stated): the second pass of a video generation styles with the
\* prompt the first pass styled with, whatever the user did in between.
C18_SamePromptBothPasses ==
    [][state # Off =>
        \A r \in RunIds :
            (run[r].pc = "api" /\ run[r].phase = "p1"
             /\ run'[r].pc = "api" /\ run'[r].phase = "p2") =>
                /\ run'[r].prompt = run[r].prompt
                /\ run'[r].request.text = run[r].request.text]_vars

\* The first request of a second pass is outstanding with the prompt of
\* the style the selector shows now, after a first pass that stored its
\* preview; the session began with the other style selected.
C18_Witness ==
    /\ state # Off
    /\ \E r \in RunIds :
          /\ run[r].pc = "api" /\ run[r].phase = "p2"
          /\ Len(state.stylizedFrames) = Len(run[r].frames)
          /\ elements.styleSelect = "Pencil Sketch"
          /\ run[r].prompt = createStylePrompt("Pencil Sketch")
          /\ run[r].request.text = createStylePrompt("Pencil Sketch")
          /\ clicks = 4

\* ------------------------------------------------------------------
\* state.capturedFrames during a generation (effects.js 757-808,
\* 574-605, 814-841)
\* ------------------------------------------------------------------

\* Some handleGenerate call has not finished.
GenerationInProgress == \E r \in RunIds : run[r] # Idle

\* The frame createLowResFrames makes of a frame (effects.js 916-938).
LowResCopy(frame) == CanvasFrame(<<"low(">> \o SplitSecond(frame.src) \o <<")">>)

\* C19 (as stated): while a generation is in progress no handler changes
\* state.capturedFrames, and the frames the second pass styles are the
\* ones whose low-resolution copies the first pass styled.
C19_FramesStableDuringRun ==
    [][state # Off =>
        /\ GenerationInProgress => state'.capturedFrames = state.capturedFrames
        /\ \A r \in RunIds :
              (run[r].pc = "api" /\ run[r].phase = "p1"
               /\ run'[r].pc = "api" /\ run'[r].phase = "p2") =>
                  run[r].frames = [j \in 1..Len(run'[r].frames) |->
                                      LowResCopy(run'[r].frames[j])]]_vars

\* A second pass is styling the one image that was uploaded during the
\* first pass, while the stored preview has the two frames of the video.
C19_Witness ==
    /\ state # Off
    /\ \E r \in RunIds :
          /\ run[r].pc = "api" /\ run[r].phase = "p2"
          /\ Len(run[r].frames) = 1
          /\ run[r].frames = state.capturedFrames
          /\ run[r].frames[1] = fileToGenerativePart("A")
          /\ Len(state.stylizedFrames) = 2
          /\ state.mediaType = "image"

\* ------------------------------------------------------------------
\* The loading state at the end of a generation (effects.js 757-808,
\* 731-755, view.js 201-218)
\* ------------------------------------------------------------------

\* The loader is hidden and the three buttons are enabled.
NotLoading(e) ==
    /\ ~e.loaderVisible
    /\ ~e.generateDisabled
    /\ ~e.cameraDisabled
    /\ ~e.extractDisabled

\* C20 (as stated): in the step that ends a handleGenerate call, on any of
\* its paths, the interface leaves the loading state: the loader is hidden
\* and the generate, camera and extract buttons are enabled.
C20_FinishedRunNotLoading ==
    [][state # Off =>
        \A r \in RunIds :
            (run[r] # Idle /\ run'[r] = Idle) => NotLoading(elements')]_vars

\* A video generation was stopped in its first pass by an authentication
\* error and no call is pending: the loader is still shown and the three
\* buttons are still disabled.
C20_Witness ==
    /\ state # Off
    /\ \A r \in RunIds : run[r] = Idle
    /\ ex = NoExtraction /\ reading = NoReads
    /\ elements.placeholderText = AuthMessage
    /\ elements.loaderVisible
    /\ elements.generateDisabled
    /\ elements.cameraDisabled
    /\ elements.extractDisabled

\* ------------------------------------------------------------------
\* The result of the image application and the loaded image (index.js
\* 234-303, 172-198, 316-325)
\* ------------------------------------------------------------------

\* The data URL applyStyle installs for the styled version of an image.
ImgStyledOf(src) ==
    createDataUrl(<<"image/png">>, <<"styled(">> \o SplitSecond(src) \o <<")">>)

\* C21 (as stated): whenever the image application holds a styled image,
\* it is the stylization of the image currently in currentImage; an answer
\* that arrives after another image was loaded installs nothing.
C21_ResultMatchesCurrentImage ==
    ia # Off =>
        (ia.stylizedImage # NoUrl =>
            /\ ia.currentImage # NoUrl
            /\ ia.stylizedImage = ImgStyledOf(ia.currentImage))

\* Picture B is the loaded image while the styled image offered for
\* download is the stylization of picture A.
C21_Witness ==
    /\ ia # Off
    /\ ia.currentImage = createDataUrl(<<"image/jpeg">>, <<"B">>)
    /\ ia.stylizedImage = ImgStyledOf(createDataUrl(<<"image/jpeg">>, <<"A">>))
    /\ ia.downloadVisible
    /\ ia.generatedVisible
    /\ ia.styling = <<>>

\* ------------------------------------------------------------------
\* Order of progress notifications and requests (effects.js 123-142,
\* 879-911)
\* ------------------------------------------------------------------

\* The progress notifications (1,n) ... (k,n).
ProgressUpTo(k, n) == [j \in 1..k |-> <<j, n>>]

\* styleFramesBatch: the notifications so far are (1,n) ... (k,n) in this
\* order, k being the frame whose request is outstanding (n after the
\* return), and the outstanding request is the one for frame k.
BatchInOrder ==
    LET n == Len(bt.frames)
    IN  /\ bt.pc = "await" =>
              /\ bt.progress = ProgressUpTo(bt.i, n)
              /\ bt.request = StyleRequest(bt.frames[bt.i], bt.prompt)
              /\ Len(bt.outcomes) = bt.i - 1
        /\ bt.pc = "returned" =>
              /\ bt.progress = ProgressUpTo(n, n)
              /\ Len(bt.outcomes) = n

\* styleFrames: a request that run r sends in this step is for the frame
\* after the one of its previous request of the same pass (the first frame
\* when the pass begins), and the status line announces that frame.
ShellRequestInOrder(r) ==
    RequestSent(r) =>
        /\ run'[r].request = StyleRequest(run'[r].frames[run'[r].i], run'[r].prompt)
        /\ elements'.placeholderText =
              <<run'[r].prefix, ToString(run'[r].i), "of", ToString(Len(run'[r].frames))>>
        /\ run'[r].i = IF run[r].pc = "api" /\ run[r].phase = run'[r].phase
                       THEN run[r].i + 1 ELSE 1

C23_RecorderStepsInOrder ==
    [][asm # Off =>
        /\ asm'.drawn # asm.drawn =>
              /\ asm.started
              /\ asm.stops = 0
              /\ Len(asm'.drawn) = Len(asm.drawn) + 1
              /\ asm.k = Len(asm'.drawn)
              /\ SubSeq(asm'.drawn, 1, Len(asm.drawn)) = asm.drawn
              /\ LET d == asm'.drawn[Len(asm'.drawn)]
                 IN  ~d.black => d.src = asm.frames[Len(asm'.drawn)].src
        /\ asm'.stops # asm.stops =>
              /\ asm.stops = 0 /\ asm'.stops = 1
              /\ Len(asm'.drawn) = Len(asm.frames)
              /\ asm.variant # "legacy" =>
                    (asm.pc = "wait" /\ Len(asm.drawn) = Len(asm.frames))
        /\ (asm'.settled = "resolved" /\ asm.settled # "resolved") =>
              /\ asm.pc = "stopping" /\ asm.stops = 1
              /\ asm.settled = "pending"
              /\ asm.codec.mimeType \in asm.supported \ asm.throws
              /\ asm'.outcome.extension = asm.codec.extension
              /\ \E k \in DOMAIN CodecOptions :
                    CodecOptions[k] = [mimeType |-> asm.codec.mimeType,
                                       extension |-> asm'.outcome.extension]]_vars

\* The effects-layer assembler has resolved a video of two frames on a
\* host that records only video/mp4: one stop, extension mp4.
C23_Witness ==
    /\ asm # Off
    /\ asm.variant = "io"
    /\ asm.pc = "end"
    /\ asm.settled = "resolved"
    /\ asm.stops = 1
    /\ Len(asm.frames) = 2 /\ Len(asm.drawn) = 2
    /\ asm.supported = {"video/mp4"}
    /\ asm.outcome.extension = "mp4"

\* ------------------------------------------------------------------
\* Failed preconditions of createVideoFromFrames (effects.js 940-1011,
\* 279-351)
\* ------------------------------------------------------------------

\* The call was rejected and nothing was recorded or drawn.
RejectedUntouched(a, messages) ==
    /\ a.settled = "rejected"
    /\ \E m \in messages : a.outcome = [error |-> m]
    /\ a.pc = "end"
    /\ ~a.started
    /\ a.drawn = <<>>
    /\ a.stops = 0

\* C24: createVideoFromFrames rejects, with no recorder started and no
\* frame drawn, when it is given no frames, when the first frame cannot be
\* loaded, and when no recorder can be constructed for any ranked type.
C24_PreconditionFailureRejects ==
    /\ [](asm # Off =>
            /\ Len(asm.frames) = 0 =>
                  RejectedUntouched(asm, {ErrNoFrames(asm.variant)})
            /\ (asm.settled = "rejected" /\ asm.outcome # [error |-> ErrRecorderEvent]) =>
                  RejectedUntouched(asm, {ErrNoFrames(asm.variant), ErrFirstFrame(asm.variant),
                                          ErrNoCodec, ErrRecorderInit(asm.variant)}))
    /\ [][(asm # Off /\ asm.pc = "first") =>
            /\ asm' = AsmOnFirstError(asm) =>
                  RejectedUntouched(asm', {ErrFirstFrame(asm.variant)})
            /\ (asm'.pc # "first" /\ asm'.supported \ asm'.throws = {}
                /\ asm' # AsmOnFirstError(asm)) =>
                  RejectedUntouched(asm', {ErrNoCodec, ErrRecorderInit(asm.variant)})]_vars

\* The shell's assembler on a host that reports two ranked types and
\* throws in the constructor for both: rejected, nothing started.
C24_Witness ==
    /\ asm # Off
    /\ asm.variant = "shell"
    /\ Len(asm.frames) = 2
    /\ asm.supported = {"video/webm; codecs=vp9", "video/mp4"}
    /\ asm.throws = asm.supported
    /\ RejectedUntouched(asm, {ErrRecorderInit("shell")})

\* ------------------------------------------------------------------
\* The frame interval between frames (effects.js 989-1006, part_002
\* 672-691)
\* ------------------------------------------------------------------

\* C25 (as stated): in every implementation of createVideoFromFrames, the
\* step that draws a frame (or its black replacement) only sets the timer
\* of the frame interval; the decode of the next frame and the stop of the
\* recorder happen in the step of that timer.
C25_IntervalAfterEachFrame ==
    [][asm # Off =>
        /\ asm'.drawn # asm.drawn =>
              /\ asm'.pc = "wait"
              /\ asm'.k = asm.k
              /\ asm'.stops = asm.stops
        /\ (asm.started /\ (asm'.k # asm.k \/ asm'.stops # asm.stops)) =>
              /\ asm.pc = "wait"
              /\ asm'.drawn = asm.drawn]_vars

\* The legacy assembler is decoding the second of two frames, having drawn
\* the first, and it never waits for a timer.
C25_Witness ==
    /\ asm # Off
    /\ asm.variant = "legacy"
    /\ Len(asm.frames) = 2
    /\ asm.pc = "decode"
    /\ asm.k = 2
    /\ Len(asm.drawn) = 1
    /\ asm.started

\* ------------------------------------------------------------------
\* Termination of a generation (effects.js 710-808, 916-938, 940-1011)
\* ------------------------------------------------------------------

\* Every request, image decode, timer and recorder event that is awaited
\* eventually happens.
EventsFire ==
    /\ WF_vars(ApiResponse)
    /\ WF_vars(LowResFramesFailed \/ LowResFramesReady)
    /\ WF_vars(VideoFirstLoaded)
    /\ WF_vars(VideoImageLoaded)
    /\ WF_vars(VideoTimerFired)
    /\ WF_vars(VideoRecorderStopped)

SpecAppLive == SpecApp /\ EventsFire

\* The page shows a styled image or a video.
ResultShown(e) == e.generatedImageWrapperVisible \/ e.outputVideoVisible

\* The status line shows an error message.
ErrorReported(e) == Len(e.placeholderText) > 0 /\ Head(e.placeholderText) = "Error: "

\* A handleGenerate call of slot r is pending; none is.
Running(r) == IF state = Off THEN FALSE ELSE run[r] # Idle
Finished(r) == IF state = Off THEN TRUE ELSE run[r] = Idle

KeyAccepted(st, e, key) == st.ai = key /\ ~e.modalVisible

\* C28: every step of the shell or of the legacy page that writes a key to
\* localStorage['gemini_api_key'] leaves a client initialised with that key
\* (the key was accepted); a step that rejects the key writes nothing.
C28_KeyStoredOnlyIfAccepted ==
    /\ [][(state # Off /\ SaveApiKey) =>
                  KeyAccepted(state', elements', storage')]_vars
    /\ [][lx # Off =>
             ((lx'.storage # lx.storage /\ lx'.storage # NoKey) =>
                  lx'.state.ai = lx'.storage)]_vars

\* A key of a wrong format was saved from the modal of a page that had no
\* key: it is in localStorage, no client was initialised, the modal is
\* still open.
C28_Witness ==
    /\ state # Off
    /\ clicks = 1
    /\ elements.modalVisible
    /\ storage = ShortKey
    /\ state.ai = NoKey
    /\ elements.placeholderText = <<"Error: ", "Invalid API Key format">>

(***************************************************************************)
(* THE CAMERA (effects.js 611-635, part_002 282-309, index.js 200-218).    *)
(*                                                                         *)
(* cam follows the camera of one page: the getUserMedia requests that are  *)
(* pending, the streams the browser has handed out (each "live" until its  *)
(* tracks are stopped), the page's mediaStream variable, which is the      *)
(* position of a stream in that list or NoStream, and the output area of   *)
(* the page, where a refused request is reported.                          *)
(***************************************************************************)
MaxCameraStreams == 3
\* The toBlob callbacks and file reads that may be pending together.
MaxCameraPending == 2

CamVariants == {"shell", "legacy", "index"}
NoStream == 0

CameraErrorText(variant) ==
    IF variant = "index" THEN "No se pudo acceder a la camara: "
    ELSE "Could not access camera. Please check permissions."

\* handleOpenCamera / openCamera up to the await.  The shell and the
\* legacy page return when a stream is referenced; index.js has no guard.
OpenCamera(c) ==
    IF c.variant # "index" /\ c.mediaStream # NoStream THEN c
    ELSE [c EXCEPT !.pending = @ + 1]

\* getUserMedia resolves: the continuation of the await.
OnCameraGranted(c) ==
    LET id == Len(c.streams) + 1
    IN  [c EXCEPT !.pending = @ - 1,
                  !.streams = Append(@, "live"),
                  !.mediaStream = id,
                  !.cameraViewVisible = TRUE,
                  !.srcObject = id]

\* getUserMedia rejects: the catch clause.  The shell and the legacy page
\* report the error in the output area, index.js in an alert.
OnCameraDenied(c) ==
    LET text == CameraErrorText(c.variant)
    IN  [c EXCEPT !.pending = @ - 1,
                  !.error = text,
                  !.elements = IF c.variant = "shell" THEN renderError(@, text)
                               ELSE IF c.variant = "legacy" THEN showError(@, text)
                               ELSE @]

\* handleCloseCamera / closeCamera.
CloseCamera(c) ==
    LET stopped == IF c.mediaStream # NoStream
                   THEN [c EXCEPT !.streams[c.mediaStream] = "stopped",
                                  !.mediaStream = NoStream]
                   ELSE c
    IN  [stopped EXCEPT !.cameraViewVisible = FALSE,
                        !.srcObject = IF c.variant = "index" THEN @ ELSE NoStream]

\* The output area of a page that shows a styled picture and its download
\* button.
PictureOnShow ==
    [InitialElements(FALSE) EXCEPT !.placeholderVisible = FALSE,
                                   !.generatedImageWrapperVisible = TRUE,
                                   !.downloadVisible = TRUE]

\* What resetState does to the elements of the page (effects.js 814-841,
\* part_002 171-197).
ResetElements(e) ==
    resetState([state |-> createAppState, elements |-> e,
                run |-> [r \in RunIds |-> Idle], storage |-> NoKey]).elements

\* loadImage of index.js (186-197), on the elements of the page.
LoadImageElements(e) ==
    [e EXCEPT !.imagePreviewVisible = TRUE,
              !.generateDisabled = FALSE,
              !.generatedImageWrapperVisible = FALSE,
              !.placeholderVisible = TRUE,
              !.downloadVisible = FALSE]

\* processImageFile up to its await (effects.js 574-579, part_002 244-249):
\* the page is reset and a read of the file starts.  handleMediaUpload of
\* index.js (172-184) starts the read and changes nothing before its end.
StartPhotoRead(c) ==
    IF c.variant = "index" THEN [c EXCEPT !.reads = @ + 1]
    ELSE [c EXCEPT !.elements = ResetElements(@), !.reads = @ + 1]

\* handleCapturePhoto (effects.js 637-644, 651) and takePhoto (part_002
\* 314-321, 327-328) up to their return: the picture is drawn and toBlob is
\* asked for it.  takePhoto of index.js (220-231) loads the picture at once
\* and closes the camera.
CapturePhoto(c) ==
    IF c.variant = "index"
    THEN CloseCamera([c EXCEPT !.elements = LoadImageElements(@)])
    ELSE [c EXCEPT !.blobs = @ + 1]

\* The callback of toBlob (effects.js 645-650, part_002 321-327): without a
\* blob nothing is done; with one, processImageFile resets the page and
\* starts to read the photo, and the camera is closed.
OnPhotoBlob(c, blob) ==
    IF blob
    THEN CloseCamera(StartPhotoRead([c EXCEPT !.blobs = @ - 1]))
    ELSE [c EXCEPT !.blobs = @ - 1]

\* The continuation of processImageFile when the file has been read
\* (effects.js 580-588, part_002 250-260), and its catch clause; the
\* reader of index.js calls loadImage and has no error handler.
OnPhotoRead(c, ok) ==
    IF c.variant = "index"
    THEN [c EXCEPT !.reads = @ - 1,
                   !.elements = IF ok THEN LoadImageElements(@) ELSE @]
    ELSE IF ~ok
    THEN [c EXCEPT !.reads = @ - 1,
                   !.elements = IF c.variant = "shell"
                                THEN renderError(@, "Could not process the uploaded file.")
                                ELSE showError(@, "Could not process the uploaded file.")]
    ELSE IF c.variant = "shell"
    THEN [c EXCEPT !.reads = @ - 1,
                   !.elements.imagePreviewVisible = TRUE,
                   !.elements.videoPreviewVisible = FALSE,
                   !.elements.frameControlsVisible = FALSE,
                   !.elements.generateDisabled = FALSE]
    ELSE [c EXCEPT !.reads = @ - 1,
                   !.elements.imagePreviewVisible = TRUE,
                   !.elements.generateDisabled = FALSE]

\* handleMediaUpload with a file that is not an image: a video is shown in
\* the preview (effects.js 595-605, part_002 267-276), any other file is
\* refused (effects.js 568-570, part_002 234-236); index.js (176-179)
\* refuses both in an alert.
UploadNoImage(c, isVideo) ==
    LET text == "Unsupported file type. Please upload an image or video."
    IN  IF c.variant = "index" THEN [c EXCEPT !.error = "Por favor sube solo imagenes"]
        ELSE IF isVideo
        THEN [c EXCEPT !.elements = [ResetElements(@) EXCEPT
                                        !.videoPreview = "loading",
                                        !.videoPreviewVisible = TRUE,
                                        !.imagePreviewVisible = FALSE,
                                        !.frameControlsVisible = TRUE]]
        ELSE [c EXCEPT !.elements = IF c.variant = "shell" THEN renderError(@, text)
                                    ELSE showError(@, text)]

InitCAM ==
    /\ \E variant \in CamVariants :
       \E page \in {InitialElements(FALSE), PictureOnShow} :
          cam = [variant |-> variant, pending |-> 0, streams |-> <<>>,
                 mediaStream |-> NoStream, cameraViewVisible |-> FALSE,
                 srcObject |-> NoStream, error |-> "", elements |-> page,
                 blobs |-> 0, reads |-> 0]
    /\ vm = Off /\ ia = Off /\ lx = Off
    /\ fc = Off /\ cd = Off /\ sm = Off /\ asm = Off /\ bt = Off
    /\ ShellOff

CamBecomes(c) ==
    /\ cam' = c
    /\ UNCHANGED <<fc, cd, sm, asm, bt, shellVars, ia, lx, vm>>

\* A click on the camera button.
CamOpenClick ==
    /\ cam # Off
    /\ cam.pending + Len(cam.streams) < MaxCameraStreams
    /\ CamBecomes(OpenCamera(cam))

CamGranted ==
    /\ cam # Off
    /\ cam.pending > 0
    /\ CamBecomes(OnCameraGranted(cam))

CamDenied ==
    /\ cam # Off
    /\ cam.pending > 0
    /\ CamBecomes(OnCameraDenied(cam))

\* A click on the close button.
CamCloseClick ==
    /\ cam # Off
    /\ CamBecomes(CloseCamera(cam))

\* A click on the capture button of the camera view.
CamCapture ==
    /\ cam # Off
    /\ cam.cameraViewVisible
    /\ cam.blobs + cam.reads < MaxCameraPending
    /\ CamBecomes(CapturePhoto(cam))

\* toBlob calls back.
CamPhotoBlob ==
    /\ cam # Off
    /\ cam.blobs > 0
    /\ \E blob \in BOOLEAN : CamBecomes(OnPhotoBlob(cam, blob))

\* The user picks an image file; the camera view does not cover the upload
\* label.
CamUploadImage ==
    /\ cam # Off
    /\ cam.blobs + cam.reads < MaxCameraPending
    /\ CamBecomes(StartPhotoRead(cam))

\* The user picks a video or another file.
CamUploadNoImage ==
    /\ cam # Off
    /\ \E isVideo \in BOOLEAN : CamBecomes(UploadNoImage(cam, isVideo))

\* The read of a photo or of an uploaded image ends.
CamPhotoRead ==
    /\ cam # Off
    /\ cam.reads > 0
    /\ \E ok \in BOOLEAN : CamBecomes(OnPhotoRead(cam, ok))

NextCAM ==
    \/ CamOpenClick \/ CamGranted \/ CamDenied \/ CamCloseClick
    \/ CamCapture \/ CamPhotoBlob \/ CamUploadImage \/ CamUploadNoImage \/ CamPhotoRead

SpecCamera == InitCAM /\ [][NextCAM]_vars

(***************************************************************************)
(* C27.  No acquired stream is left running without a reference.           *)
(***************************************************************************)
LiveStreams(c) == {i \in DOMAIN c.streams : c.streams[i] = "live"}

\* C27: under every interleaving of open clicks, pending getUserMedia
\* requests and close events, every stream the page has acquired is the one
\* mediaStream refers to or has had its tracks stopped; so at most one
\* stream is live.
C27_NoUnreferencedLiveStream ==
    cam # Off =>
        /\ \A i \in LiveStreams(cam) : cam.mediaStream = i
        /\ Cardinality(LiveStreams(cam)) <= 1

\* Two open clicks were made on the shell before the first request was
\* granted: both streams are live and the first has no reference.
C27_Witness ==
    /\ cam # Off
    /\ cam.variant = "shell"
    /\ cam.pending = 0
    /\ cam.streams = <<"live", "live">>
    /\ cam.mediaStream = 2

(***************************************************************************)
(* THE ANDROID VIEW MODEL (MainViewModel, NEXT-STEPS.md 215-306; its       *)
(* observer, MainActivity.kt 116-133).                                     *)
(*                                                                         *)
(* vm follows the view model: the value of _uiState, the value handed to   *)
(* postValue and not yet delivered, selectedBitmap, and the stylize        *)
(* requests in flight (each the bitmap it was made for).  Everything runs  *)
(* on the main thread; a coroutine runs up to its first suspension inside  *)
(* the click handler that launched it.                                     *)
(***************************************************************************)
MaxVmRequests == 2

Uris == {"u1", "u2"}
NoUri == "none"
NoBitmap == <<>>
NoMessage == ""
NoPost == [posted |-> FALSE]

\* UiState() (NEXT-STEPS.md 225-232)
UiState ==
    [previewUri |-> NoUri, isGenerateButtonEnabled |-> FALSE,
     isLoading |-> FALSE, loadingMessage |-> "",
     resultBitmap |-> NoBitmap, errorMessage |-> NoMessage]

\* The observer of uiState (MainActivity.kt 116-133) is called with the new
\* value; for a value with an error message it shows the message and calls
\* onErrorShown (NEXT-STEPS.md 304-306), which sets the value again.
SetValue(v, ui) ==
    IF ui.errorMessage # NoMessage
    THEN [v EXCEPT !.ui = [ui EXCEPT !.errorMessage = NoMessage],
                   !.toast = ui.errorMessage]
    ELSE [v EXCEPT !.ui = ui]

\* postValue: the value is delivered by a later task of the main thread; a
\* value posted before that replaces the one that waits.
PostValue(v, ui) == [v EXCEPT !.posted = [posted |-> TRUE, ui |-> ui]]

\* What opening and decoding a picture can come to: a bitmap; null, which
\* is what BitmapFactory.decodeStream returns for data it cannot decode;
\* an exception of openInputStream.
DecodeOutcomes == {"decoded", "undecodable", "throws"}

\* onMediaSelected (NEXT-STEPS.md 241-254)
onMediaSelected(v, uri, outcome) ==
    IF outcome = "throws"
    THEN SetValue(v, [v.ui EXCEPT !.errorMessage = "Error al cargar el medio."])
    ELSE SetValue([v EXCEPT !.selectedBitmap =
                               IF outcome = "decoded" THEN <<uri>> ELSE NoBitmap],
                  [v.ui EXCEPT !.previewUri = uri,
                               !.isGenerateButtonEnabled = TRUE,
                               !.resultBitmap = NoBitmap])

\* onGenerateClicked (NEXT-STEPS.md 256-279) up to the suspension of the
\* coroutine in stylizeImage.
onGenerateClicked(v) ==
    IF v.selectedBitmap = NoBitmap THEN v
    ELSE LET started == SetValue(v, [v.ui EXCEPT !.isLoading = TRUE,
                                                 !.loadingMessage = "Preparando imagen...",
                                                 !.isGenerateButtonEnabled = FALSE])
             posted == PostValue(started,
                                 [started.ui EXCEPT !.loadingMessage = "Aplicando estilo..."])
         IN  [posted EXCEPT !.inFlight = Append(@, v.selectedBitmap)]

RemoveAt(s, i) == SubSeq(s, 1, i - 1) \o SubSeq(s, i + 1, Len(s))

\* The coroutine after stylizeImage (NEXT-STEPS.md 279-301): the answer of
\* request i is a picture, or bytes that decodeByteArray cannot decode and
\* returns null for, or the call throws.
onStylized(v, i, answer) ==
    LET rest == [v EXCEPT !.inFlight = RemoveAt(@, i)]
    IN  IF answer = "decoded"
        THEN PostValue(rest, [v.ui EXCEPT !.isLoading = FALSE,
                                          !.resultBitmap = <<"styled">> \o v.inFlight[i],
                                          !.isGenerateButtonEnabled = TRUE])
        ELSE IF answer = "undecodable"
        THEN PostValue(rest, [v.ui EXCEPT !.isLoading = FALSE,
                                          !.resultBitmap = NoBitmap,
                                          !.isGenerateButtonEnabled = TRUE])
        ELSE PostValue(rest, [v.ui EXCEPT !.isLoading = FALSE,
                                          !.errorMessage = "Error [IOException]: ",
                                          !.isGenerateButtonEnabled = TRUE])

\* The main thread delivers the posted value.
deliverPosted(v) == SetValue([v EXCEPT !.posted = NoPost], v.posted.ui)

InitVM ==
    /\ vm = [ui |-> UiState, posted |-> NoPost, selectedBitmap |-> NoBitmap,
             inFlight |-> <<>>, toast |-> NoMessage]
    /\ cam = Off /\ ia = Off /\ lx = Off
    /\ fc = Off /\ cd = Off /\ sm = Off /\ asm = Off /\ bt = Off
    /\ ShellOff

VmBecomes(v) ==
    /\ vm' = v
    /\ UNCHANGED <<fc, cd, sm, asm, bt, shellVars, ia, lx, cam>>

\* The result of the picker or of the camera (MainActivity.kt 37-50); both
\* buttons are enabled at all times.
VmMediaSelected ==
    /\ vm # Off
    /\ \E uri \in Uris : \E outcome \in DecodeOutcomes :
          VmBecomes(onMediaSelected(vm, uri, outcome))

\* A click on btnGenerate, which the observer enables and disables
\* (MainActivity.kt 94-101, 118).
VmGenerateClick ==
    /\ vm # Off
    /\ vm.ui.isGenerateButtonEnabled
    /\ Len(vm.inFlight) < MaxVmRequests
    /\ VmBecomes(onGenerateClicked(vm))

VmStylized ==
    /\ vm # Off
    /\ \E i \in 1..Len(vm.inFlight) : \E answer \in DecodeOutcomes :
          VmBecomes(onStylized(vm, i, answer))

VmPostedDelivered ==
    /\ vm # Off
    /\ vm.posted # NoPost
    /\ VmBecomes(deliverPosted(vm))

NextVM == VmMediaSelected \/ VmGenerateClick \/ VmStylized \/ VmPostedDelivered

SpecViewModel == InitVM /\ [][NextVM]_vars

(***************************************************************************)
(* C29.  While the view model is loading, the generate button is disabled. *)
(***************************************************************************)
\* C29: in every reachable UI state isLoading implies that the generate
\* button is disabled, whatever the order of onMediaSelected,
\* onGenerateClicked and the completions of stylize requests; hence at most
\* one stylize request is in flight.
C29_LoadingDisablesGenerate ==
    vm # Off =>
        /\ vm.ui.isLoading => ~vm.ui.isGenerateButtonEnabled
        /\ Len(vm.inFlight) <= 1

\* A picture was chosen while a request was in flight and the button was
\* clicked again: two requests are in flight.
C29_Witness ==
    /\ vm # Off
    /\ vm.inFlight = << <<"u1">>, <<"u2">> >>
    /\ vm.ui.isLoading
    /\ vm.ui.previewUri = "u2"

(***************************************************************************)
(* C30.  An animation timer reads inside its sequence.                     *)
(***************************************************************************)
\* The frame the next tick of the preview timer reads is there.
PreviewIndexInBounds(st) ==
    (st.previewAnimation /\ Len(st.capturedFrames) > 0) =>
        st.previewIndex < Len(st.capturedFrames)

\* The index the output timer has stored is that of a frame.
OutputIndexInBounds(st) ==
    st.outputAnimation =>
        /\ Len(st.stylizedFrames) > 0
        /\ 0 <= st.currentFrameIndex
        /\ st.currentFrameIndex < Len(st.stylizedFrames)

\* C30: whenever an animation timer can fire, the index it uses is within
\* the sequence it reads: 0 <= currentFrameIndex < stylizedFrames.length
\* for the output animation and currentIndex < capturedFrames.length for
\* the preview animation, after any uploads, extractions, generations and
\* resets.
C30_AnimationIndexInBounds ==
    state # Off =>
        /\ PreviewIndexInBounds(state)
        /\ OutputIndexInBounds(state)

\* The preview timer is set with currentIndex 1 and the late end of an
\* image read has replaced the extracted frames by one picture.
C30_Witness ==
    /\ state # Off
    /\ state.previewAnimation
    /\ state.previewIndex = 1
    /\ Len(state.capturedFrames) = 1
    /\ state.mediaType = "video"

====
